---- MODULE Spec2Model ----
(***************************************************************************)
(* A model of the tiniredis server: the per-connection command loop, the   *)
(* shared store behind one mutex, the blocking-pop and blocking-read       *)
(* tasks, the pub/sub hub, MULTI/EXEC and the AUTH gate.                   *)
(***************************************************************************)
EXTENDS Integers, Sequences, FiniteSets, TLC

\* ------------------------------------------------------------------ bounds
NumConns == 3
MaxCmds == 3
MaxMs == 1
\* how many clients close their socket
MaxClosed == 1
\* how far the clock advances, in milliseconds
MaxClock == 2
\* the largest value of the modelled signed integer type (i64 scaled down)
I64Max == 3
\* how many more frames the clients send between MULTI and EXEC
MaxQueued == 2
\* the largest value of the modelled unsigned integer type (u64 scaled down)
U64Max == 2

Conns == 1..NumConns
Keys == {"K", "J"}

VARIABLES
    store,      \* MemoryStorage.data: key -> [t, v]
    lock,       \* holder of the storage mutex
    pc,         \* per connection: position of process_incoming
    alive,      \* per connection: the client's socket is open
    authed,     \* per connection: process_incoming's `authed`
    nrecv,      \* per connection: number of frames read so far
    cur,        \* per connection: the command being awaited (Block)
    wait,       \* per connection: the oneshot receiver being awaited
    out,        \* per connection: frames written to the socket, in order
    nops,       \* total number of frames read by the server
    txq,        \* per connection: process_transaction's command_queue
    execRes,    \* per connection: the EXEC loop's `responses`
    sid,        \* per connection: client id held in subscribe mode
    bpopQ,      \* Queues.bpop
    bpopChan,   \* Notifiers.bpop (mpsc of keys)
    bpopKey,    \* bpop_task: the key being handled while it holds the locks
    xreadQ,     \* Queues.xread
    xreadChan,  \* Notifiers.xread (mpsc of keys)
    clients,    \* Queues.pubsub: client id -> PubSubClient
    subRx,      \* per client id: frames in the subscriber's mpsc
    hubChan,    \* Notifiers.pubsub (mpsc of PubSubEvent)
    hubSeq,     \* number of Message events the hub has handled
    poisoned,   \* the storage mutex is poisoned (a holder panicked)
    build,      \* "debug" (overflow panics) or "release" (overflow wraps)
    requirepass, \* Config.auth is Some(password)
    clock,      \* Instant::now(), in milliseconds since the server started
    written,       \* the RESP values a client has written to its socket
    inflight,   \* the bytes of them that have not yet arrived
    rbuf,       \* the read buffer of the connection's framed reader
    decoded,    \* the values the decoder has returned so far
    rstate,     \* the reader: "ok", "error" (decode returned Err) or "panic"
    file,       \* the RDB file at Config.rdb_path (<<>>: there is none)
    snapshot,   \* the store as it was when the file was written
    boots,      \* number of times the server has been started again
    shutdown,   \* the shutdown watch has been signalled
    task,       \* per background task: its position
    changes,    \* ChangeCounter.changes
    lastSave,   \* persist_task: last_save
    finalSaves, \* number of times persist_task ran save_rdb_file after its loop
    qlock,      \* per queue of Queues: holder of its mutex
    cstep,      \* per connection: where its task is between awaits and locks
    tstep,      \* per background thread: where it is between awaits and locks
    inbuf,      \* per connection: the read buffer of cxn (whole frames, partial frame)
    flushed     \* per connection: how many frames of out have left the write buffer

conn == <<pc, alive, authed, nrecv, cur, wait, out, nops, txq, execRes, sid>>
shared == <<store, bpopQ, bpopChan, xreadQ, xreadChan, clients, subRx, hubChan>>
wire == <<written, inflight, rbuf, decoded, rstate>>
disk == <<file, snapshot, boots>>
tasks == <<shutdown, task, changes, lastSave, finalSaves>>
sync == <<qlock, cstep, tstep>>
pipe == <<inbuf, flushed>>
more == <<wire, disk, tasks, sync, pipe>>
vars == <<conn, shared, lock, bpopKey, hubSeq, poisoned, build, requirepass, clock, more>>

\* ------------------------------------------------------------ plain values
NoKey == "-"
FreeLock == [kind |-> "free", id |-> 0]
ConnLock(c) == [kind |-> "conn", id |-> c]
TaskLock(name) == [kind |-> name, id |-> 0]

\* ttl_millis: None
NoTtl == 0 - 1
\* RedisObject: data type t, data v, created, ttl_millis
RedisObject(t, v, created, ttl) == [t |-> t, v |-> v, created |-> created, ttl |-> ttl]
\* no entry at the key
NoValue == RedisObject("none", <<>>, 0, NoTtl)
\* RedisObject::new_list, then filled
ListValue(l) == RedisObject("list", l, clock, NoTtl)
\* RedisObject::new_with_ttl(RedisDataType::String(val), ttl_millis)
StringObject(val, ttl) == RedisObject("string", <<val>>, clock, ttl)

\* RedisObject::is_current
IsCurrent(o) == IF o.ttl # NoTtl THEN clock - o.created <= o.ttl ELSE TRUE
\* MemoryStorage::get / get_mut: the object at key, unless missing or expired
GetData(st, key) ==
    IF st[key].t # "none" /\ IsCurrent(st[key]) THEN st[key] ELSE NoValue
\* MemoryStorage::get_entry_with_default: the store with a live entry at key
GetEntryWithDefault(st, key, default) ==
    IF st[key].t # "none" /\ IsCurrent(st[key]) THEN st
    ELSE [st EXCEPT ![key] = default]

NoCmd == [op |-> "NONE"]
NoWait == [st |-> "none", val |-> <<>>]
PendingWait == [st |-> "pending", val |-> <<>>]
ReadyWait(val) == [st |-> "ready", val |-> val]

\* RESP values
SimpleString(s) == [t |-> "simple", v |-> <<s>>]
ErrorValue(s) == [t |-> "err", v |-> <<s>>]
IntValue(n) == [t |-> "int", v |-> <<n>>]
StringValue(s) == [t |-> "bulk", v |-> <<s>>]
NilString == [t |-> "nil", v |-> <<>>]
NilArray == [t |-> "nilarr", v |-> <<>>]
ArrayValue(a) == [t |-> "arr", v |-> a]
OK == SimpleString("OK")

Reverse(s) == [i \in 1..Len(s) |-> s[Len(s) + 1 - i]]
Min(a, b) == IF a < b THEN a ELSE b

\* ------------------------------------------------------------ base storage
\* Storage::kind
Kind(st, key) == GetData(st, key).t

\* Storage::ttl: -2 when missing or expired, -1 without a ttl, else seconds left
Ttl(st, key) ==
    IF st[key].t = "none" \/ ~IsCurrent(st[key]) THEN 0 - 2
    ELSE IF st[key].ttl = NoTtl THEN 0 - 1
    ELSE (st[key].ttl - (clock - st[key].created)) \div 1000

\* Storage::del: self.data.remove(key).is_some()
Del(st, key) ==
    [removed |-> st[key].t # "none", store |-> [st EXCEPT ![key] = NoValue]]

\* the loop of DEL over its keys: [count, store]
RECURSIVE DelLoop(_, _, _)
DelLoop(st, keys, count) ==
    IF keys = <<>> THEN [count |-> count, store |-> st]
    ELSE LET d == Del(st, Head(keys))
         IN  DelLoop(d.store, Tail(keys), IF d.removed THEN count + 1 ELSE count)

Digits == <<"0", "1", "2", "3", "4", "5", "6", "7", "8", "9">>
RECURSIVE NatToString(_)
NatToString(n) ==
    IF n < 10 THEN Digits[n + 1] ELSE NatToString(n \div 10) \o Digits[(n % 10) + 1]
\* i64::to_string
IntToString(n) == IF n < 0 THEN "-" \o NatToString(0 - n) ELSE NatToString(n)
\* str::parse::<i64>: [ok, int]
ParseInt(text) ==
    LET I64 == (0 - I64Max - 1)..I64Max
    IN  IF \E n \in I64 : IntToString(n) = text
        THEN [ok |-> TRUE, int |-> CHOOSE n \in I64 : IntToString(n) = text]
        ELSE [ok |-> FALSE, int |-> 0]

\* Storage::incr: [panic, ok, int, store]
Incr(st, bld, key) ==
    LET with == GetEntryWithDefault(st, key, StringObject("0", NoTtl))
        parsed == IF with[key].t = "string" THEN ParseInt(with[key].v[1])
                  ELSE [ok |-> FALSE, int |-> 0]
        int == IF parsed.int = I64Max THEN 0 - I64Max - 1 ELSE parsed.int + 1
    IN  IF ~parsed.ok THEN [panic |-> FALSE, ok |-> FALSE, int |-> 0, store |-> with]
        ELSE IF parsed.int = I64Max /\ bld = "debug"
        THEN [panic |-> TRUE, ok |-> FALSE, int |-> 0, store |-> with]
        ELSE [panic |-> FALSE, ok |-> TRUE, int |-> int,
              store |-> [with EXCEPT ![key] = StringObject(IntToString(int), NoTtl)]]

\* Storage::size: the live entries
Size(st) == Cardinality({key \in Keys : st[key].t # "none" /\ IsCurrent(st[key])})
\* Storage::flush
Flush(st) == [key \in Keys |-> NoValue]
\* Storage::cleanup_expired
CleanupExpired(st) ==
    [key \in Keys |-> IF st[key].t # "none" /\ ~IsCurrent(st[key]) THEN NoValue
                      ELSE st[key]]

\* ------------------------------------------------------------- set storage
\* RedisObject::new_set
SetValue == RedisObject("set", {}, clock, NoTtl)

\* SetStorage::sadd: [ok, num, store]
SAdd(st, key, members) ==
    LET with == GetEntryWithDefault(st, key, SetValue)
        named == {members[i] : i \in 1..Len(members)}
    IN  IF with[key].t # "set" THEN [ok |-> FALSE, num |-> 0, store |-> with]
        ELSE [ok |-> TRUE, num |-> Cardinality(named \ with[key].v),
              store |-> [with EXCEPT ![key].v = @ \cup named]]

\* an srem that leaves the emptied set at its key
SRemKept(st, key, members) ==
    LET o == GetData(st, key)
        named == {members[i] : i \in 1..Len(members)}
    IN  IF o.t = "none" THEN [ok |-> TRUE, num |-> 0, store |-> st]
        ELSE IF o.t # "set" THEN [ok |-> FALSE, num |-> 0, store |-> st]
        ELSE [ok |-> TRUE, num |-> Cardinality(named \cap o.v),
              store |-> [st EXCEPT ![key].v = @ \ named]]
\* SetStorage::srem: [ok, num, store]
SRem(st, key, members) ==
    LET o == GetData(st, key)
        named == {members[i] : i \in 1..Len(members)}
    IN  IF o.t = "none" THEN [ok |-> TRUE, num |-> 0, store |-> st]
        ELSE IF o.t # "set" THEN [ok |-> FALSE, num |-> 0, store |-> st]
        ELSE [ok |-> TRUE, num |-> Cardinality(named \cap o.v),
              store |-> [st EXCEPT ![key] =
                  IF o.v \ named = {} THEN NoValue ELSE [@ EXCEPT !.v = o.v \ named]]]

\* ------------------------------------------------------------ list storage
RECURSIVE PushFrontAll(_, _)
PushFrontAll(vec, elems) ==
    IF elems = <<>> THEN vec
    ELSE PushFrontAll(<<Head(elems)>> \o vec, Tail(elems))

\* ListStorage::push: [ok, len, store]
Push(st, key, elems, dir) ==
    LET with == GetEntryWithDefault(st, key, ListValue(<<>>))
        entry == with[key]
    IN  IF entry.t = "list"
        THEN LET vec == IF dir = "Right" THEN entry.v \o elems
                        ELSE PushFrontAll(entry.v, elems)
             IN  [ok |-> TRUE, len |-> Len(vec),
                  store |-> [with EXCEPT ![key].v = vec]]
        ELSE [ok |-> FALSE, len |-> 0, store |-> with]

\* ListStorage::pop: [some, elems, store]
Pop(st, key, dir, count) ==
    IF GetData(st, key).t # "list"
    THEN [some |-> FALSE, elems |-> <<>>, store |-> st]
    ELSE LET vec == st[key].v
             n == Min(count, Len(vec))
             elems == IF dir = "Left" THEN SubSeq(vec, 1, n)
                      ELSE Reverse(SubSeq(vec, Len(vec) - n + 1, Len(vec)))
             rest == IF dir = "Left" THEN SubSeq(vec, n + 1, Len(vec))
                     ELSE SubSeq(vec, 1, Len(vec) - n)
         IN  [some |-> TRUE, elems |-> elems,
              store |-> [st EXCEPT ![key] =
                            IF rest = <<>> THEN NoValue ELSE [@ EXCEPT !.v = rest]]]

\* ListStorage::llen
LLen(st, key) == IF GetData(st, key).t = "list" THEN Len(st[key].v) ELSE 0

\* ListStorage::lrange
LRange(st, key, start, stop) ==
    IF GetData(st, key).t # "list" THEN <<>>
    ELSE LET list == st[key].v
             beg == IF start < 0
                    THEN (IF Len(list) + start < 0 THEN 0 ELSE Len(list) + start)
                    ELSE start
             end == Min(IF stop < 0
                        THEN (IF Len(list) + stop < 0 THEN 0 ELSE Len(list) + stop)
                        ELSE stop, Len(list) - 1)
         IN  IF beg >= Len(list) \/ beg > end THEN <<>>
             ELSE SubSeq(list, beg + 1, end + 1)

\* ---------------------------------------------------------- stream storage
IdLeq(a, b) == a[1] < b[1] \/ (a[1] = b[1] /\ a[2] <= b[2])
IdLess(a, b) == a[1] < b[1] \/ (a[1] = b[1] /\ a[2] < b[2])

StreamValue(ids) == RedisObject("stream", ids, clock, NoTtl)
ExplicitId(ms, seq) == [kind |-> "id", ms |-> ms, seq |-> seq]
AutoSeqId(ms) == [kind |-> "auto", ms |-> ms, seq |-> 0]
DollarId == [kind |-> "$", ms |-> 0, seq |-> 0]

\* `n + 1` on the unsigned type: wraps in a release build
WrappingInc(n) == (n + 1) % (U64Max + 1)
\* `n + 1` overflows: panics in a debug build
IncOverflows(n) == n = U64Max

\* map.last_key_value() of the live stream at key, else (0, 0)
TopId(st, key) ==
    IF GetData(st, key).t = "stream" /\ st[key].v # <<>>
    THEN st[key].v[Len(st[key].v)] ELSE <<0, 0>>

\* format_stream_id: the id as the text "ms-seq", which parses as an explicit id
FormatStreamId(id) == ExplicitId(id[1], id[2])

\* parse_stream_id: [ovf, id]; defaultSeq is what the closure yields for ms
ParseStreamId(raw, defaultSeq) ==
    IF raw.kind = "auto" THEN <<raw.ms, defaultSeq>> ELSE <<raw.ms, raw.seq>>

\* StreamStorage::xadd: [panic, ok, id, err, store]
XAdd(st, bld, key, raw) ==
    LET min_id == TopId(st, key)
        gen == raw.kind = "auto" /\ raw.ms = min_id[1]
        id == ParseStreamId(raw, IF raw.ms = min_id[1]
                                 THEN WrappingInc(min_id[2]) ELSE 0)
        fail(e) == [panic |-> FALSE, ok |-> FALSE, id |-> id, err |-> e, store |-> st]
    IN  IF gen /\ IncOverflows(min_id[2]) /\ bld = "debug"
        THEN [panic |-> TRUE, ok |-> FALSE, id |-> id, err |-> "panic", store |-> st]
        ELSE IF id = <<0, 0>>
        THEN fail("ERR The ID specified in XADD must be greater than 0-0")
        ELSE IF IdLeq(id, min_id)
        THEN fail("ERR The ID specified in XADD is equal or smaller than the target stream top item")
        ELSE IF GetData(st, key).t \notin {"none", "stream"}
        THEN fail("Not a stream")
        ELSE [panic |-> FALSE, ok |-> TRUE, id |-> id, err |-> "",
              store |-> [GetEntryWithDefault(st, key, StreamValue(<<>>))
                            EXCEPT ![key].v = Append(@, id)]]

\* one iteration of StreamStorage::xread's loop: [panic, parsed, entries]
XReadOne(st, bld, key, raw) ==
    IF GetData(st, key).t = "stream"
    THEN LET start == IF raw.kind = "$" THEN TopId(st, key)
                      ELSE ParseStreamId(raw, 0)
             from == <<start[1], WrappingInc(start[2])>>
         IN  [panic |-> IncOverflows(start[2]) /\ bld = "debug",
              parsed |-> start,
              entries |-> SelectSeq(st[key].v, LAMBDA id : IdLeq(from, id))]
    ELSE [panic |-> FALSE,
          parsed |-> IF raw.kind = "$" THEN <<0, 0>> ELSE ParseStreamId(raw, 0),
          entries |-> <<>>]

\* StreamStorage::xread: [panic, parsed, response]
XRead(st, bld, streams) ==
    LET one == [i \in 1..Len(streams) |->
                    XReadOne(st, bld, streams[i][1], streams[i][2])]
        all == [i \in 1..Len(streams) |-> <<streams[i][1], one[i].entries>>]
    IN  [panic |-> \E i \in 1..Len(streams) : one[i].panic,
         parsed |-> [i \in 1..Len(streams) |-> <<streams[i][1], one[i].parsed>>],
         response |-> SelectSeq(all, LAMBDA r : r[2] # <<>>)]

\* ------------------------------------------------------ sorted set storage
\* the member names, in the order of their bytes
MemberOrder == <<"bar", "baz", "foo">>
Members == {MemberOrder[i] : i \in 1..Len(MemberOrder)}
\* Bytes::cmp as a number
MemberRank(m) == CHOOSE i \in 1..Len(MemberOrder) : MemberOrder[i] = m

RankedItem(member, score) == [member |-> member, score |-> score]

\* an order that looks at the member alone
ItemLessByMember(a, b) == MemberRank(a.member) < MemberRank(b.member)
\* RankedItem::cmp is Less: by score, then by member
ItemLess(a, b) ==
    \/ a.score < b.score
    \/ (a.score = b.score /\ MemberRank(a.member) < MemberRank(b.member))
\* RankedItem::cmp is Equal
ItemSame(a, b) == ~ItemLess(a, b) /\ ~ItemLess(b, a)

\* SortedSet(hash, ranked) as the data of an object
SortedSet(hash, ranked) == <<hash, ranked>>
EmptyHash == [m \in {} |-> 0]
\* RedisObject::new_sorted_set
SortedSetValue == RedisObject("zset", SortedSet(EmptyHash, <<>>), clock, NoTtl)

\* BTreeSet::insert: the tree keeps an item that compares equal
BTreeInsert(ranked, item) ==
    IF \E i \in 1..Len(ranked) : ItemSame(ranked[i], item) THEN ranked
    ELSE LET below == SelectSeq(ranked, LAMBDA x : ItemLess(x, item))
             above == SelectSeq(ranked, LAMBDA x : ItemLess(item, x))
         IN  below \o <<item>> \o above

\* a take that finds the item and leaves it in the tree
BTreeTakeKept(ranked, item) ==
    [found |-> \E i \in 1..Len(ranked) : ItemSame(ranked[i], item),
     ranked |-> ranked]
\* BTreeSet::take / remove: [found, ranked]
BTreeTake(ranked, item) ==
    [found |-> \E i \in 1..Len(ranked) : ItemSame(ranked[i], item),
     ranked |-> SelectSeq(ranked, LAMBDA x : ~ItemSame(x, item))]

\* HashMap::insert
HashInsert(hash, member, score) ==
    [m \in DOMAIN hash \cup {member} |-> IF m = member THEN score ELSE hash[m]]
\* HashMap::remove_entry
HashRemove(hash, member) == [m \in DOMAIN hash \ {member} |-> hash[m]]

\* get_sorted_set / get_sorted_set_mut / get_sorted_set_entry: the error, if any
SortedSetError(o) ==
    IF o.t # "zset" THEN "Not a sorted set"
    ELSE IF Cardinality(DOMAIN o.v[1]) # Len(o.v[2]) THEN "Sorted set data is malformed"
    ELSE ""

\* the loop of zadd over members (<<score, member>> pairs): [hash, ranked, num, panic]
RECURSIVE ZAddLoop(_, _, _, _)
ZAddLoop(hash, ranked, members, num) ==
    IF members = <<>>
    THEN [hash |-> hash, ranked |-> ranked, num |-> num, panic |-> FALSE]
    ELSE LET score == Head(members)[1]
             member == Head(members)[2]
         IN  IF member \notin DOMAIN hash
             THEN ZAddLoop(HashInsert(hash, member, score),
                           BTreeInsert(ranked, RankedItem(member, score)),
                           Tail(members), num + 1)
             ELSE LET old_rank == BTreeTake(ranked, RankedItem(member, hash[member]))
                  IN  IF ~old_rank.found
                      THEN [hash |-> HashInsert(hash, member, score), ranked |-> ranked,
                            num |-> num, panic |-> TRUE]
                      ELSE ZAddLoop(HashInsert(hash, member, score),
                                    BTreeInsert(old_rank.ranked, RankedItem(member, score)),
                                    Tail(members), num)

\* SortedSetStorage::zadd: [panic, err, num, store]
ZAdd(st, key, members) ==
    LET with == GetEntryWithDefault(st, key, SortedSetValue)
        err == SortedSetError(with[key])
    IN  IF err # "" THEN [panic |-> FALSE, err |-> err, num |-> 0, store |-> with]
        ELSE LET r == ZAddLoop(with[key].v[1], with[key].v[2], members, 0)
             IN  [panic |-> r.panic, err |-> "", num |-> r.num,
                  store |-> [with EXCEPT ![key].v = SortedSet(r.hash, r.ranked)]]

\* the loop of zrem over members: [hash, ranked, num]
RECURSIVE ZRemLoop(_, _, _, _)
ZRemLoop(hash, ranked, members, num) ==
    IF members = <<>> THEN [hash |-> hash, ranked |-> ranked, num |-> num]
    ELSE LET member == Head(members)
         IN  IF member \in DOMAIN hash
             THEN ZRemLoop(HashRemove(hash, member),
                           BTreeTake(ranked, RankedItem(member, hash[member])).ranked,
                           Tail(members), num + 1)
             ELSE ZRemLoop(hash, ranked, Tail(members), num)

\* SortedSetStorage::zrem: [err, num, store]
ZRem(st, key, members) ==
    LET o == GetData(st, key)
    IN  IF o.t = "none" THEN [err |-> "", num |-> 0, store |-> st]
        ELSE IF SortedSetError(o) # ""
        THEN [err |-> SortedSetError(o), num |-> 0, store |-> st]
        ELSE LET r == ZRemLoop(o.v[1], o.v[2], members, 0)
             IN  [err |-> "", num |-> r.num,
                  store |-> [st EXCEPT ![key] =
                      IF DOMAIN r.hash = {} THEN NoValue
                      ELSE [@ EXCEPT !.v = SortedSet(r.hash, r.ranked)]]]

\* length.checked_add_signed(index).unwrap_or_default(), or the index itself
FromIndex(length, index) ==
    IF index < 0 THEN (IF length + index < 0 THEN 0 ELSE length + index) ELSE index

\* SortedSetStorage::zrange: [err, members]
ZRange(st, key, start, stop) ==
    LET o == GetData(st, key)
    IN  IF o.t = "none" THEN [err |-> "", members |-> <<>>]
        ELSE IF SortedSetError(o) # "" THEN [err |-> SortedSetError(o), members |-> <<>>]
        ELSE LET ranked == o.v[2]
                 length == Len(ranked)
                 beg == FromIndex(length, start)
                 end == Min(FromIndex(length, stop), length - 1)
             IN  [err |-> "",
                  members |-> IF beg >= length \/ beg > end THEN <<>>
                              ELSE [i \in 1..(end - beg + 1) |-> ranked[beg + i].member]]

\* SortedSetStorage::zrank: [err, some, rank]
ZRank(st, key, member) ==
    LET o == GetData(st, key)
    IN  IF o.t = "none" THEN [err |-> "", some |-> FALSE, rank |-> 0]
        ELSE IF SortedSetError(o) # ""
        THEN [err |-> SortedSetError(o), some |-> FALSE, rank |-> 0]
        ELSE IF member \notin DOMAIN o.v[1] \/ o.v[2] = <<>>
        THEN [err |-> "", some |-> FALSE, rank |-> 0]
        ELSE LET item == RankedItem(member, o.v[1][member])
                 lowest == o.v[2][1]
             IN  [err |-> "", some |-> TRUE,
                  rank |-> Len(SelectSeq(o.v[2], LAMBDA x :
                              ~ItemLess(x, lowest) /\ ItemLess(x, item)))]

\* ------------------------------------------------------------- geo storage
\* the bits of a grid coordinate, with a zero bit put between them
SpreadBits(n) == (n % 2) + 4 * (n \div 2)
\* coord_to_score of a coordinate given as its grid cell <<lon, lat>>
CoordToScore(coord) == SpreadBits(coord[2]) + 2 * SpreadBits(coord[1])
\* GeoStorage::geoadd
GeoAdd(st, key, members) ==
    ZAdd(st, key, [i \in 1..Len(members) |->
                      <<CoordToScore(members[i][1]), members[i][2]>>])

\* ---------------------------------------------------------------- commands
Ping == [op |-> "PING"]
Invalid == [op |-> "INVALID"]
Get(key) == [op |-> "GET", key |-> key]
Set(key, val) == [op |-> "SET", key |-> key, val |-> val, ttl |-> NoTtl]
SetPx(key, val, px) == [op |-> "SET", key |-> key, val |-> val, ttl |-> px]
PushCmd(key, elems, dir) == [op |-> "PUSH", key |-> key, elems |-> elems, dir |-> dir]
PopCmd(key, dir, count) == [op |-> "POP", key |-> key, dir |-> dir, count |-> count]
BPopCmd(key, dir, timeout) ==
    [op |-> "BPOP", key |-> key, dir |-> dir, timeout_millis |-> timeout]
XAddCmd(key, id) == [op |-> "XADD", key |-> key, id |-> id]
XReadCmd(streams, block) == [op |-> "XREAD", streams |-> streams, block |-> block]
Subscribe(chans) == [op |-> "SUBSCRIBE", channels |-> chans]
Unsubscribe(chans) == [op |-> "UNSUBSCRIBE", channels |-> chans]
Publish(ch, msg) == [op |-> "PUBLISH", channel |-> ch, message |-> msg]
TypeCmd(key) == [op |-> "TYPE", key |-> key]
TtlCmd(key) == [op |-> "TTL", key |-> key]
DelCmd(keys) == [op |-> "DEL", keys |-> keys]
IncrCmd(key) == [op |-> "INCR", key |-> key]
DbSize == [op |-> "DBSIZE"]
\* frames whose command name the parser does not know
Quit == [op |-> "QUIT"]
Reset == [op |-> "RESET"]
FlushDb == [op |-> "FLUSHDB"]
LLenCmd(key) == [op |-> "LLEN", key |-> key]
LRangeCmd(key, start, stop) == [op |-> "LRANGE", key |-> key, start |-> start, stop |-> stop]
SAddCmd(key, members) == [op |-> "SADD", key |-> key, members |-> members]
SRemCmd(key, members) == [op |-> "SREM", key |-> key, members |-> members]
ZAddCmd(key, members) == [op |-> "ZADD", key |-> key, members |-> members]
ZRemCmd(key, members) == [op |-> "ZREM", key |-> key, members |-> members]
ZRangeCmd(key, start, stop) == [op |-> "ZRANGE", key |-> key, start |-> start, stop |-> stop]
ZRankCmd(key, member) == [op |-> "ZRANK", key |-> key, member |-> member]
GeoAddCmd(key, members) == [op |-> "GEOADD", key |-> key, members |-> members]
Multi == [op |-> "MULTI"]
Exec == [op |-> "EXEC"]
Discard == [op |-> "DISCARD"]
Auth(pass) == [op |-> "AUTH", pass |-> pass]

\* XREAD's block argument: absent, or a number of milliseconds
NoBlock == 0 - 1

\* the state execute_command works on
Shared ==
    [store |-> store, bpopQ |-> bpopQ, bpopChan |-> bpopChan, xreadQ |-> xreadQ,
     xreadChan |-> xreadChan, clients |-> clients, subRx |-> subRx,
     hubChan |-> hubChan]

\* waiters and hub events
BPopClient(key, dir, c) == [key |-> key, dir |-> dir, conn |-> c, closed |-> FALSE]
XReadClient(streams, c) == [streams |-> streams, conn |-> c, closed |-> FALSE]
PubSubClient == [present |-> TRUE, channels |-> {}, closed |-> FALSE]
\* i: the index, on its connection, of the frame that caused the event
\* and from the connection; reply is the connection awaiting the oneshot
HubEvent(ev, id, chans, ch, msg, reply, i) ==
    [ev |-> ev, id |-> id, channels |-> chans, channel |-> ch, message |-> msg,
     reply |-> reply, from |-> reply, i |-> i]

\* CommandResponse, or the Err(Bytes) of execute_command
Response(k, v) == [k |-> k, v |-> v, id |-> 0, at |-> <<>>]
Value(v) == Response("Value", v)
Executed(S, r) == [S |-> S, r |-> r, panic |-> FALSE]
Panicked(S) == [S |-> S, r |-> Response("Panic", NilString), panic |-> TRUE]

\* a push that tells nobody
BPopNotifyLost(S, key) == S
\* Notifiers::bpop_notify
BPopNotify(S, key) == [S EXCEPT !.bpopChan = Append(@, key)]
\* Notifiers::xread_notify
XReadNotify(S, key) == [S EXCEPT !.xreadChan = Append(@, key)]
\* Queues::bpop_push
BPopPush(S, key, dir, c) == [S EXCEPT !.bpopQ = Append(@, BPopClient(key, dir, c))]
\* Queues::xread_push
XReadPush(S, streams, c) == [S EXCEPT !.xreadQ = Append(@, XReadClient(streams, c))]
\* Queues::pubsub_add: a fresh client id
PubSubAdd(S) ==
    [S EXCEPT !.clients = Append(@, PubSubClient), !.subRx = Append(@, <<>>)]
\* an event that overtakes the events already waiting for the hub
HubSendFront(S, event) == [S EXCEPT !.hubChan = <<event>> \o @]
\* Notifiers::pubsub_subscribe / pubsub_unsubscribe / pubsub_ping / pubsub_publish
HubSend(S, event) == [S EXCEPT !.hubChan = Append(@, event)]

\* execute_command, for frame number i of connection c: [S, r, panic]
ExecuteCommand(cmd, c, i, S, bld) ==
    CASE cmd.op = "AUTH" -> Executed(S, Response("Auth", <<cmd.pass>>))
      [] cmd.op = "PING" -> Executed(S, Value(SimpleString("PONG")))
      [] cmd.op = "MULTI" -> Executed(S, Response("Transaction", <<>>))
      [] cmd.op = "EXEC" ->
            Executed(S, Value(ErrorValue("ERR EXEC without MULTI")))
      [] cmd.op = "DISCARD" ->
            Executed(S, Value(ErrorValue("ERR DISCARD without MULTI")))
      [] cmd.op = "GET" ->
            Executed(S, Value(IF GetData(S.store, cmd.key).t = "string"
                              THEN StringValue(S.store[cmd.key].v[1])
                              ELSE NilString))
      [] cmd.op = "SET" ->
            Executed([S EXCEPT !.store[cmd.key] = StringObject(cmd.val, cmd.ttl)],
                     Value(OK))
      [] cmd.op = "PUSH" ->
            LET p == Push(S.store, cmd.key, cmd.elems, cmd.dir)
            IN  IF p.ok
                THEN Executed(BPopNotify([S EXCEPT !.store = p.store], cmd.key),
                              Value(IntValue(p.len)))
                ELSE Executed(S, Response("Err", ErrorValue("Not a list")))
      [] cmd.op = "POP" ->
            LET p == Pop(S.store, cmd.key, cmd.dir, cmd.count)
            IN  IF p.some
                THEN Executed([S EXCEPT !.store = p.store],
                              Value(IF cmd.count = 1
                                    THEN StringValue(p.elems[Len(p.elems)])
                                    ELSE ArrayValue(p.elems)))
                ELSE Executed(S, Value(NilString))
      [] cmd.op = "BPOP" ->
            LET p == Pop(S.store, cmd.key, cmd.dir, 1)
            IN  IF p.some
                THEN Executed([S EXCEPT !.store = p.store],
                              Value(ArrayValue(<<cmd.key, p.elems[Len(p.elems)]>>)))
                ELSE Executed(BPopPush(S, cmd.key, cmd.dir, c),
                              Response("Block", <<>>))
      [] cmd.op = "XADD" ->
            LET x == XAdd(S.store, bld, cmd.key, cmd.id)
            IN  IF x.panic THEN Panicked(S)
                ELSE IF x.ok
                THEN Executed(XReadNotify([S EXCEPT !.store = x.store], cmd.key),
                              Value(StringValue(FormatStreamId(x.id))))
                ELSE Executed(S, Response("Err", ErrorValue(x.err)))
      [] cmd.op = "XREAD" ->
            LET x == XRead(S.store, bld, cmd.streams)
                parsed == [j \in 1..Len(x.parsed) |->
                              <<x.parsed[j][1], FormatStreamId(x.parsed[j][2])>>]
            IN  IF x.panic THEN Panicked(S)
                ELSE IF x.response # <<>>
                THEN Executed(S, [Value(ArrayValue(x.response)) EXCEPT !.at = parsed])
                ELSE IF cmd.block # NoBlock
                THEN Executed(XReadPush(S, parsed, c),
                              [Response("Block", <<>>) EXCEPT !.at = parsed])
                ELSE Executed(S, Value(NilArray))
      [] cmd.op = "DBSIZE" -> Executed(S, Value(IntValue(Size(S.store))))
      [] cmd.op = "FLUSHDB" -> Executed([S EXCEPT !.store = Flush(@)], Value(OK))
      [] cmd.op = "TYPE" -> Executed(S, Value(SimpleString(Kind(S.store, cmd.key))))
      [] cmd.op = "TTL" -> Executed(S, Value(IntValue(Ttl(S.store, cmd.key))))
      [] cmd.op = "DEL" ->
            LET d == DelLoop(S.store, cmd.keys, 0)
            IN  Executed([S EXCEPT !.store = d.store], Value(IntValue(d.count)))
      [] cmd.op = "INCR" ->
            LET n == Incr(S.store, bld, cmd.key)
            IN  IF n.panic THEN Panicked([S EXCEPT !.store = n.store])
                ELSE IF n.ok
                THEN Executed([S EXCEPT !.store = n.store], Value(IntValue(n.int)))
                ELSE Executed([S EXCEPT !.store = n.store],
                              Response("Err", ErrorValue(
                                  "ERR value is not an integer or out of range")))
      [] cmd.op = "LLEN" -> Executed(S, Value(IntValue(LLen(S.store, cmd.key))))
      [] cmd.op = "LRANGE" ->
            Executed(S, Value(ArrayValue(LRange(S.store, cmd.key, cmd.start, cmd.stop))))
      [] cmd.op = "SADD" ->
            LET a == SAdd(S.store, cmd.key, cmd.members)
            IN  IF a.ok THEN Executed([S EXCEPT !.store = a.store], Value(IntValue(a.num)))
                ELSE Executed([S EXCEPT !.store = a.store],
                              Response("Err", ErrorValue("Not a set")))
      [] cmd.op = "SREM" ->
            LET a == SRem(S.store, cmd.key, cmd.members)
            IN  IF a.ok THEN Executed([S EXCEPT !.store = a.store], Value(IntValue(a.num)))
                ELSE Executed(S, Response("Err", ErrorValue("Not a set")))
      [] cmd.op \in {"ZADD", "GEOADD"} ->
            LET z == IF cmd.op = "ZADD" THEN ZAdd(S.store, cmd.key, cmd.members)
                     ELSE GeoAdd(S.store, cmd.key, cmd.members)
            IN  IF z.panic THEN Panicked([S EXCEPT !.store = z.store])
                ELSE IF z.err # ""
                THEN Executed([S EXCEPT !.store = z.store],
                              Response("Err", ErrorValue(z.err)))
                ELSE Executed([S EXCEPT !.store = z.store], Value(IntValue(z.num)))
      [] cmd.op = "ZREM" ->
            LET z == ZRem(S.store, cmd.key, cmd.members)
            IN  IF z.err # "" THEN Executed(S, Response("Err", ErrorValue(z.err)))
                ELSE Executed([S EXCEPT !.store = z.store], Value(IntValue(z.num)))
      [] cmd.op = "ZRANGE" ->
            LET z == ZRange(S.store, cmd.key, cmd.start, cmd.stop)
            IN  IF z.err # "" THEN Executed(S, Response("Err", ErrorValue(z.err)))
                ELSE Executed(S, Value(ArrayValue(z.members)))
      [] cmd.op = "ZRANK" ->
            LET z == ZRank(S.store, cmd.key, cmd.member)
            IN  IF z.err # "" THEN Executed(S, Response("Err", ErrorValue(z.err)))
                ELSE Executed(S, Value(IF z.some THEN IntValue(z.rank) ELSE NilString))
      [] cmd.op = "SUBSCRIBE" ->
            LET T == PubSubAdd(S)
                client_id == Len(T.clients)
            IN  Executed(HubSend(T, HubEvent("Subscribe", client_id, cmd.channels,
                                             "", "", 0, i)),
                         [Response("Subscribed", <<>>) EXCEPT !.id = client_id])
      [] cmd.op = "PUBLISH" ->
            Executed(HubSend(S, HubEvent("Message", 0, <<>>, cmd.channel,
                                         cmd.message, c, i)),
                     Response("Block", <<>>))

\* -------------------------------------------------------- connection loop
Password == "pw"
NoCur == [cmd |-> [op |-> "NONE"], at |-> <<>>]

\* a frame on the socket: i is the index of the command it answers (0: a
\* published message), via tells which step of the loop wrote it
Frame(i, via, cmd, at, v) == [i |-> i, via |-> via, req |-> cmd, at |-> at, val |-> v]

SetShared(S) ==
    /\ store' = S.store
    /\ bpopQ' = S.bpopQ
    /\ bpopChan' = S.bpopChan
    /\ xreadQ' = S.xreadQ
    /\ xreadChan' = S.xreadChan
    /\ clients' = S.clients
    /\ subRx' = S.subRx
    /\ hubChan' = S.hubChan

\* a frame can be read from connection c: the client is there and sends one
\* (connections are numbered in the order of their first frame)
HasFrame(c) ==
    alive[c] /\ nops < MaxCmds /\ (IF c = 1 THEN TRUE ELSE nrecv[c - 1] > 0)

\* process_incoming reads the next frame off the socket
CanRead(c) == pc[c] = "ready" /\ HasFrame(c)

Read(c) ==
    /\ nrecv' = [nrecv EXCEPT ![c] = @ + 1]
    /\ nops' = nops + 1

\* process_incoming: feed/send the response; a write error ends the loop
Write(c, via, cmd, at, v) ==
    IF alive[c]
    THEN /\ out' = [out EXCEPT ![c] = Append(@, Frame(nrecv'[c], via, cmd, at, v))]
         /\ pc' = [pc EXCEPT ![c] = "ready"]
    ELSE /\ out' = out
         /\ pc' = [pc EXCEPT ![c] = "closed"]

\* the frame does not parse as a command: process_command returns Err
ConnInvalid(c) ==
    /\ CanRead(c)
    /\ Read(c)
    /\ Write(c, "parse", Invalid, <<>>, ErrorValue("Unrecognized command"))
    /\ UNCHANGED <<alive, authed, cur, wait, txq, execRes, sid, shared, lock,
                   bpopKey, hubSeq, poisoned, build, requirepass, clock, more>>

\* a gate that lets every command through
AuthGateOpen(isAuthed, cmd) == TRUE
\* process_command's gate: may this command go on to execute?
AuthGate(isAuthed, cmd) == isAuthed \/ cmd.op = "AUTH"

\* process_command on an unauthenticated connection
ConnNoAuth(c, cmd) ==
    /\ CanRead(c)
    /\ ~AuthGate(authed[c], cmd)
    /\ Read(c)
    /\ Write(c, "gate", cmd, <<>>, ErrorValue("NOAUTH Authentication required"))
    /\ UNCHANGED <<alive, authed, cur, wait, txq, execRes, sid, shared, lock,
                   bpopKey, hubSeq, poisoned, build, requirepass, clock, more>>

\* process_incoming's match on an Auth response: [authed, val]
CheckAuth(configured, pass) ==
    IF ~configured \/ pass = Password
    THEN [authed |-> TRUE, val |-> OK]
    ELSE [authed |-> FALSE, val |-> ErrorValue("WRONGPASS invalid password")]

\* where process_incoming goes on a Block response
OnBlock == "blocked"

\* process_incoming's match on what process_command returned
OnResponse(c, cmd, e) ==
    /\ SetShared(e.S)
    /\ poisoned' = e.panic
    /\ CASE e.panic ->
             /\ pc' = [pc EXCEPT ![c] = "closed"]
             /\ UNCHANGED <<out, authed, cur, wait, txq, sid>>
         [] e.r.k = "Auth" ->
             LET a == CheckAuth(requirepass, e.r.v[1])
             IN  /\ authed' = [authed EXCEPT ![c] = a.authed]
                 /\ Write(c, "auth", cmd, <<>>, a.val)
                 /\ UNCHANGED <<cur, wait, txq, sid>>
         [] e.r.k \in {"Value", "Err"} ->
             /\ Write(c, "value", cmd, e.r.at, e.r.v)
             /\ UNCHANGED <<authed, cur, wait, txq, sid>>
         [] e.r.k = "Block" ->
             /\ pc' = [pc EXCEPT ![c] = OnBlock]
             /\ cur' = [cur EXCEPT ![c] = [cmd |-> cmd, at |-> e.r.at]]
             /\ wait' = [wait EXCEPT ![c] = PendingWait]
             /\ UNCHANGED <<out, authed, txq, sid>>
         [] e.r.k = "Subscribed" ->
             /\ pc' = [pc EXCEPT ![c] = "sub"]
             /\ sid' = [sid EXCEPT ![c] = e.r.id]
             /\ UNCHANGED <<out, authed, cur, wait, txq>>
         [] e.r.k = "Transaction" ->
             /\ out' = [out EXCEPT ![c] = Append(@, Frame(nrecv'[c], "multi", cmd, <<>>, OK))]
             /\ pc' = [pc EXCEPT ![c] = "multi"]
             /\ txq' = [txq EXCEPT ![c] = <<>>]
             /\ UNCHANGED <<authed, cur, wait, sid>>

\* process_command under the storage lock, then process_incoming's match
ExecuteFrame(c, cmd) ==
    /\ AuthGate(authed[c], cmd)
    /\ lock = FreeLock
    /\ ~poisoned
    /\ Read(c)
    /\ OnResponse(c, cmd, ExecuteCommand(cmd, c, nrecv[c] + 1, Shared, build))
    /\ UNCHANGED <<alive, execRes, lock, bpopKey, hubSeq, build, requirepass, clock>>

\* one round of process_incoming's loop on a frame that arrives alone
ConnExecute(c, cmd) ==
    /\ CanRead(c)
    /\ ExecuteFrame(c, cmd)
    /\ UNCHANGED more

\* the value a Block future resolves to once its oneshot has a value
BlockValue(cmd, val) ==
    CASE cmd.op = "BPOP" -> ArrayValue(<<cmd.key, val[1]>>)
      [] cmd.op = "XREAD" -> ArrayValue(val)
      [] cmd.op = "PUBLISH" -> IntValue(val[1])

\* rx.await resolves with the value sent on the oneshot
WakeFrame(c) ==
    /\ pc[c] = "blocked"
    /\ wait[c].st = "ready"
    /\ nrecv' = nrecv
    /\ Write(c, "wake", cur[c].cmd, cur[c].at, BlockValue(cur[c].cmd, wait[c].val))
    /\ wait' = [wait EXCEPT ![c] = NoWait]
    /\ cur' = [cur EXCEPT ![c] = NoCur]
    /\ UNCHANGED <<alive, authed, nops, txq, execRes, sid, shared, lock, bpopKey,
                   hubSeq, poisoned, build, requirepass, clock>>

ConnWake(c) == WakeFrame(c) /\ UNCHANGED more

\* the receiver of c's oneshot is dropped: its waiters see a closed channel
DropReceiver(q, c) ==
    [i \in 1..Len(q) |-> IF q[i].conn = c THEN [q[i] EXCEPT !.closed = TRUE] ELSE q[i]]

\* a timer that is armed whatever the command says
TimeoutAlways(cmd) == 1
\* the timeout_millis / block duration of the awaited command
TimeoutOf(cmd) ==
    CASE cmd.op = "BPOP" -> cmd.timeout_millis
      [] cmd.op = "XREAD" -> cmd.block
      [] OTHER -> 0

\* tokio::time::timeout fires before a value was sent: nil array
TimeoutFrame(c) ==
    /\ pc[c] = "blocked"
    /\ wait[c].st = "pending"
    /\ TimeoutOf(cur[c].cmd) > 0
    /\ nrecv' = nrecv
    /\ Write(c, "timeout", cur[c].cmd, cur[c].at, NilArray)
    /\ wait' = [wait EXCEPT ![c] = NoWait]
    /\ cur' = [cur EXCEPT ![c] = NoCur]
    /\ bpopQ' = DropReceiver(bpopQ, c)
    /\ xreadQ' = DropReceiver(xreadQ, c)
    /\ UNCHANGED <<alive, authed, nops, txq, execRes, sid, store, bpopChan,
                   xreadChan, clients, subRx, hubChan, lock, bpopKey, hubSeq,
                   poisoned, build, requirepass, clock>>

ConnTimeout(c) == TimeoutFrame(c) /\ UNCHANGED more

\* the client closes its socket
Disconnect(c) ==
    /\ alive[c]
    /\ pc[c] # "closed"
    /\ Cardinality({d \in Conns : ~alive[d]}) < MaxClosed
    /\ alive' = [alive EXCEPT ![c] = FALSE]
    /\ UNCHANGED <<pc, authed, nrecv, cur, wait, out, nops, txq, execRes, sid,
                   shared, lock, bpopKey, hubSeq, poisoned, build, requirepass, clock, more>>

\* cxn.next() yields None: the loop ends
ConnEof(c) ==
    /\ pc[c] = "ready"
    /\ ~alive[c]
    /\ pc' = [pc EXCEPT ![c] = "closed"]
    /\ UNCHANGED <<alive, authed, nrecv, cur, wait, out, nops, txq, execRes, sid,
                   shared, lock, bpopKey, hubSeq, poisoned, build, requirepass, clock, more>>

\* ------------------------------------------------------- background tasks
RemoveAt(q, i) == SubSeq(q, 1, i - 1) \o SubSeq(q, i + 1, Len(q))

\* the last waiter on key instead of the first
LastWaiter(q, key) ==
    IF \E i \in 1..Len(q) : q[i].key = key
    THEN CHOOSE i \in 1..Len(q) :
            q[i].key = key /\ \A j \in (i + 1)..Len(q) : q[j].key # key
    ELSE 0

\* bpop_queue.iter().position(|c| c.key == key): 0 when there is none
FirstWaiter(q, key) ==
    IF \E i \in 1..Len(q) : q[i].key = key
    THEN CHOOSE i \in 1..Len(q) :
            q[i].key = key /\ \A j \in 1..(i - 1) : q[j].key # key
    ELSE 0

\* the end bpop_task pops from for this client
PopDirection(client) == client.dir

\* bpop_task: receive a key, then lock the storage and the bpop queue
BPopRecv ==
    /\ task["bpop"] = "loop"
    /\ bpopKey = NoKey
    /\ bpopChan # <<>>
    /\ lock = FreeLock
    /\ ~poisoned
    /\ bpopKey' = Head(bpopChan)
    /\ bpopChan' = Tail(bpopChan)
    /\ lock' = TaskLock("bpop")
    /\ UNCHANGED <<conn, store, bpopQ, xreadQ, xreadChan, clients, subRx, hubChan,
                   hubSeq, poisoned, build, requirepass, clock, more>>

\* the loop with the element of a dropped client pushed at the other end
BPopIterOtherEnd ==
    /\ lock = TaskLock("bpop")
    /\ LET client_idx == FirstWaiter(bpopQ, bpopKey)
           client == bpopQ[client_idx]
           direction == PopDirection(client)
           popped == Pop(store, bpopKey, direction, 1)
           elem == popped.elems[Len(popped.elems)]
       IN  IF client_idx # 0 /\ popped.some
           THEN /\ bpopQ' = RemoveAt(bpopQ, client_idx)
                /\ IF client.closed
                   THEN /\ store' = Push(popped.store, bpopKey, <<elem>>,
                                       IF direction = "Left" THEN "Right" ELSE "Left").store
                        /\ wait' = wait
                   ELSE /\ store' = popped.store
                        /\ wait' = [wait EXCEPT ![client.conn] = ReadyWait(<<elem>>)]
                /\ UNCHANGED <<lock, bpopKey>>
           ELSE /\ lock' = FreeLock
                /\ bpopKey' = NoKey
                /\ UNCHANGED <<store, bpopQ, wait>>
    /\ UNCHANGED <<pc, alive, authed, nrecv, cur, out, nops, txq, execRes, sid,
                   bpopChan, xreadQ, xreadChan, clients, subRx, hubChan, hubSeq,
                   poisoned, build, requirepass, clock, more>>

\* bpop_task: one iteration of the while loop, holding both locks
BPopIter ==
    /\ lock = TaskLock("bpop")
    /\ LET client_idx == FirstWaiter(bpopQ, bpopKey)
           client == bpopQ[client_idx]
           direction == PopDirection(client)
           popped == Pop(store, bpopKey, direction, 1)
           elem == popped.elems[Len(popped.elems)]
       IN  IF client_idx # 0 /\ popped.some
           THEN /\ bpopQ' = RemoveAt(bpopQ, client_idx)
                /\ IF client.closed
                   THEN /\ store' = Push(popped.store, bpopKey, <<elem>>, direction).store
                        /\ wait' = wait
                   ELSE /\ store' = popped.store
                        /\ wait' = [wait EXCEPT ![client.conn] = ReadyWait(<<elem>>)]
                /\ UNCHANGED <<lock, bpopKey>>
           ELSE /\ lock' = FreeLock
                /\ bpopKey' = NoKey
                /\ UNCHANGED <<store, bpopQ, wait>>
    /\ UNCHANGED <<pc, alive, authed, nrecv, cur, out, nops, txq, execRes, sid,
                   bpopChan, xreadQ, xreadChan, clients, subRx, hubChan, hubSeq,
                   poisoned, build, requirepass, clock, more>>

\* xread_task's loop over the queue: [q, wait, panic] after clients i..Len(q)
RECURSIVE XReadLoop(_, _, _, _, _, _)
XReadLoop(q, w, st, bld, key, i) ==
    IF i > Len(q) THEN [q |-> q, wait |-> w, panic |-> FALSE]
    ELSE IF ~(\E j \in 1..Len(q[i].streams) : q[i].streams[j][1] = key)
    THEN XReadLoop(q, w, st, bld, key, i + 1)
    ELSE IF q[i].closed
    THEN XReadLoop(RemoveAt(q, i), w, st, bld, key, i)
    ELSE LET x == XRead(st, bld, q[i].streams)
         IN  IF x.panic THEN [q |-> q, wait |-> w, panic |-> TRUE]
             ELSE IF x.response # <<>>
             THEN XReadLoop(RemoveAt(q, i),
                            [w EXCEPT ![q[i].conn] = ReadyWait(x.response)],
                            st, bld, key, i)
             ELSE XReadLoop(q, w, st, bld, key, i + 1)

\* xread_task: receive a key, lock, re-run the read of every waiter on it
XReadTask ==
    /\ task["xread"] = "loop"
    /\ xreadChan # <<>>
    /\ lock = FreeLock
    /\ ~poisoned
    /\ LET r == XReadLoop(xreadQ, wait, store, build, Head(xreadChan), 1)
       IN  /\ xreadQ' = r.q
           /\ wait' = r.wait
           /\ poisoned' = r.panic
    /\ xreadChan' = Tail(xreadChan)
    /\ UNCHANGED <<pc, alive, authed, nrecv, cur, out, nops, txq, execRes, sid,
                   store, bpopQ, bpopChan, clients, subRx, hubChan, lock, bpopKey,
                   hubSeq, build, requirepass, clock, more>>

\* time passes
Tick ==
    /\ clock < MaxClock
    /\ clock' = clock + 1
    /\ UNCHANGED <<conn, shared, lock, bpopKey, hubSeq, poisoned, build, requirepass, more>>

\* cleanup_task at a tick: lock the storage and sweep the expired entries
CleanupExpiredTick ==
    /\ task["cleanup"] = "loop"
    /\ lock = FreeLock
    /\ ~poisoned
    /\ \E key \in Keys : store[key].t # "none" /\ ~IsCurrent(store[key])
    /\ store' = CleanupExpired(store)
    /\ UNCHANGED <<conn, bpopQ, bpopChan, xreadQ, xreadChan, clients, subRx, hubChan,
                   lock, bpopKey, hubSeq, poisoned, build, requirepass, clock, more>>

\* Queues::cleanup_disconnected, called by cleanup_task at each tick
CleanupDisconnected ==
    /\ task["cleanup"] = "loop"
    /\ lock.kind # "bpop"
    /\ ~poisoned
    /\ \/ \E i \in 1..Len(bpopQ) : bpopQ[i].closed
       \/ \E i \in 1..Len(xreadQ) : xreadQ[i].closed
       \/ \E i \in 1..Len(clients) : clients[i].present /\ clients[i].closed
    /\ bpopQ' = SelectSeq(bpopQ, LAMBDA client : ~client.closed)
    /\ xreadQ' = SelectSeq(xreadQ, LAMBDA client : ~client.closed)
    /\ clients' = [i \in 1..Len(clients) |->
                      IF clients[i].closed
                      THEN [clients[i] EXCEPT !.present = FALSE] ELSE clients[i]]
    /\ UNCHANGED <<conn, store, bpopChan, xreadChan, subRx, hubChan, lock, bpopKey,
                   hubSeq, poisoned, build, requirepass, clock, more>>

\* -------------------------------------------------------------- pub/sub hub
\* a frame in a subscriber's mpsc; seq numbers the hub's Message events and
\* pub is <<connection, frame number, awaiting connection>> of the PUBLISH
\* behind a message
NoPub == <<0, 0, 0>>
HubFrame(i, seq, pub, val) == [i |-> i, seq |-> seq, pub |-> pub, val |-> val]

\* the sequences that enumerate a set (an iteration order of a HashSet)
RECURSIVE Orders(_)
Orders(set) ==
    IF set = {} THEN {<<>>}
    ELSE UNION {{<<x>> \o o : o \in Orders(set \ {x})} : x \in set}

\* PubSubEvent::Subscribe loop: [channels, messages]
RECURSIVE SubscribeLoop(_, _, _)
SubscribeLoop(set, chs, i) ==
    IF chs = <<>> THEN [channels |-> set, messages |-> <<>>]
    ELSE LET now == set \cup {Head(chs)}
             rest == SubscribeLoop(now, Tail(chs), i)
         IN  [channels |-> rest.channels,
              messages |-> <<HubFrame(i, 0, NoPub, ArrayValue(<<"subscribe", Head(chs),
                                                                Cardinality(now)>>))>>
                           \o rest.messages]

\* PubSubEvent::Unsubscribe loop: [channels, messages]
RECURSIVE UnsubscribeLoop(_, _, _)
UnsubscribeLoop(set, chs, i) ==
    IF chs = <<>> THEN [channels |-> set, messages |-> <<>>]
    ELSE LET now == set \ {Head(chs)}
             rest == UnsubscribeLoop(now, Tail(chs), i)
         IN  [channels |-> rest.channels,
              messages |-> <<HubFrame(i, 0, NoPub, ArrayValue(<<"unsubscribe", Head(chs),
                                                                Cardinality(now)>>))>>
                           \o rest.messages]

\* client.tx.send(..) for each message: dropped when the receiver is gone
SendAll(rx, cl, id, messages) ==
    IF cl[id].closed THEN rx ELSE [rx EXCEPT ![id] = @ \o messages]

\* every registered subscriber of the channel, its receiver open or not
RecipientsAny(cl, channel) ==
    {id \in 1..Len(cl) : cl[id].present /\ channel \in cl[id].channels}
\* the clients a Message event is sent to
Recipients(cl, channel) ==
    {id \in 1..Len(cl) : cl[id].present /\ channel \in cl[id].channels
                          /\ ~cl[id].closed}

\* a message put before the ones already waiting
EnqueueFront(q, frame) == <<frame>> \o q
\* where the hub puts a message in a subscriber's mpsc
Enqueue(q, frame) == Append(q, frame)

\* pubsub_task: handle one event
HubStep ==
    /\ task["pubsub"] = "loop"
    /\ hubChan # <<>>
    /\ LET event == Head(hubChan)
           id == event.id
       IN  CASE event.ev = "Message" ->
                   LET to == Recipients(clients, event.channel)
                       frame == HubFrame(0, hubSeq + 1, <<event.from, event.i, event.reply>>,
                                   ArrayValue(<<"message", event.channel,
                                                event.message>>))
                   IN  /\ subRx' = [j \in 1..Len(subRx) |->
                                       IF j \in to THEN Enqueue(subRx[j], frame)
                                       ELSE subRx[j]]
                       /\ wait' = IF event.reply # 0
                                  THEN [wait EXCEPT ![event.reply] =
                                           ReadyWait(<<Cardinality(to)>>)]
                                  ELSE wait
                       /\ hubSeq' = hubSeq + 1
                       /\ clients' = clients
             [] event.ev # "Message" /\ ~clients[id].present ->
                   UNCHANGED <<subRx, wait, hubSeq, clients>>
             [] event.ev = "Ping" /\ clients[id].present ->
                   /\ subRx' = SendAll(subRx, clients, id,
                                  <<HubFrame(event.i, 0, NoPub,
                                             ArrayValue(<<"pong", "">>))>>)
                   /\ UNCHANGED <<wait, hubSeq, clients>>
             [] event.ev = "Subscribe" /\ clients[id].present ->
                   LET r == SubscribeLoop(clients[id].channels, event.channels, event.i)
                   IN  /\ clients' = [clients EXCEPT ![id].channels = r.channels]
                       /\ subRx' = SendAll(subRx, clients, id, r.messages)
                       /\ UNCHANGED <<wait, hubSeq>>
             [] event.ev = "Unsubscribe" /\ clients[id].present ->
                   \E drain \in Orders(clients[id].channels) :
                       LET r == UnsubscribeLoop(clients[id].channels,
                                   IF event.channels = <<>> THEN drain
                                   ELSE event.channels, event.i)
                       IN  /\ clients' = [clients EXCEPT ![id].channels = r.channels]
                           /\ subRx' = SendAll(subRx, clients, id, r.messages)
                           /\ UNCHANGED <<wait, hubSeq>>
    /\ hubChan' = Tail(hubChan)
    /\ UNCHANGED <<pc, alive, authed, nrecv, cur, out, nops, txq, execRes, sid,
                   store, bpopQ, bpopChan, xreadQ, xreadChan, lock, bpopKey,
                   poisoned, build, requirepass, clock, more>>

\* ------------------------------------------------------------ subscribe mode
FromHub == [op |-> "HUB"]

\* which frame of its mpsc subscribe_mode writes next
NextMessage(q) == 1

\* subscribe_mode: a message arrives on rx and is written to the socket
SubDeliver(c) ==
    /\ pc[c] = "sub"
    /\ subRx[sid[c]] # <<>>
    /\ LET k == NextMessage(subRx[sid[c]])
           f == subRx[sid[c]][k]
       IN  IF alive[c]
           THEN /\ out' = [out EXCEPT ![c] =
                              Append(@, Frame(f.i, "hub", FromHub,
                                              <<f.seq>> \o f.pub, f.val))]
                /\ subRx' = [subRx EXCEPT ![sid[c]] = RemoveAt(@, k)]
                /\ UNCHANGED <<pc, clients>>
           ELSE /\ pc' = [pc EXCEPT ![c] = "ready"]
                /\ clients' = [clients EXCEPT ![sid[c]].closed = TRUE]
                /\ subRx' = [subRx EXCEPT ![sid[c]] = <<>>]
                /\ out' = out
    /\ UNCHANGED <<alive, authed, nrecv, cur, wait, nops, txq, execRes, sid, store,
                   bpopQ, bpopChan, xreadQ, xreadChan, hubChan, lock, bpopKey,
                   hubSeq, poisoned, build, requirepass, clock, more>>

\* process_pubsub_command: PING, SUBSCRIBE, UNSUBSCRIBE become hub events
SubCommand(c, cmd) ==
    /\ pc[c] = "sub"
    /\ HasFrame(c)
    /\ cmd.op \in {"PING", "SUBSCRIBE", "UNSUBSCRIBE"}
    /\ Read(c)
    /\ hubChan' = Append(hubChan,
          CASE cmd.op = "PING" -> HubEvent("Ping", sid[c], <<>>, "", "", 0, nrecv'[c])
            [] cmd.op = "SUBSCRIBE" ->
                  HubEvent("Subscribe", sid[c], cmd.channels, "", "", 0, nrecv'[c])
            [] cmd.op = "UNSUBSCRIBE" ->
                  HubEvent("Unsubscribe", sid[c], cmd.channels, "", "", 0, nrecv'[c]))
    /\ UNCHANGED <<pc, alive, authed, cur, wait, out, txq, execRes, sid, store,
                   bpopQ, bpopChan, xreadQ, xreadChan, clients, subRx, lock,
                   bpopKey, hubSeq, poisoned, build, requirepass, clock, more>>

\* process_pubsub_command bails: the error is written, subscribe mode goes on
SubReject(c, cmd) ==
    /\ pc[c] = "sub"
    /\ HasFrame(c)
    /\ cmd.op \notin {"PING", "SUBSCRIBE", "UNSUBSCRIBE"}
    /\ Read(c)
    /\ out' = [out EXCEPT ![c] =
                  Append(@, Frame(nrecv'[c], "sub", cmd, <<>>,
                                  ErrorValue("ERR Can't execute")))]
    /\ UNCHANGED <<pc, alive, authed, cur, wait, txq, execRes, sid, shared, lock,
                   bpopKey, hubSeq, poisoned, build, requirepass, clock, more>>

\* ------------------------------------------------------------ transactions
Queued == SimpleString("QUEUED")
Unsupported == ErrorValue("ERR Unsupported operation in MULTI block")

\* a frame can be read from connection c between MULTI and EXEC
HasQueuedFrame(c) ==
    alive[c] /\ Len(txq[c]) < MaxQueued /\ nops < MaxCmds + MaxQueued

\* a queued frame that is run at once instead of at EXEC
TxnQueueEager(c, cmd) ==
    /\ pc[c] = "multi"
    /\ HasQueuedFrame(c)
    /\ cmd.op \notin {"EXEC", "DISCARD", "INVALID"}
    /\ lock = FreeLock
    /\ Read(c)
    /\ SetShared(ExecuteCommand(cmd, c, nrecv[c] + 1, Shared, build).S)
    /\ txq' = [txq EXCEPT ![c] = Append(@, cmd)]
    /\ out' = [out EXCEPT ![c] = Append(@, Frame(nrecv'[c], "queue", NoCmd, <<>>, Queued))]
    /\ UNCHANGED <<pc, alive, authed, cur, wait, execRes, sid, lock, bpopKey,
                   hubSeq, poisoned, build, requirepass, clock, more>>

\* process_transaction: a frame that parses is queued
TxnQueue(c, cmd) ==
    /\ pc[c] = "multi"
    /\ HasQueuedFrame(c)
    /\ cmd.op \notin {"EXEC", "DISCARD", "INVALID"}
    /\ Read(c)
    /\ txq' = [txq EXCEPT ![c] = Append(@, cmd)]
    /\ out' = [out EXCEPT ![c] = Append(@, Frame(nrecv'[c], "queue", NoCmd, <<>>, Queued))]
    /\ UNCHANGED <<pc, alive, authed, cur, wait, execRes, sid, shared, lock,
                   bpopKey, hubSeq, poisoned, build, requirepass, clock, more>>

\* process_transaction: a frame that does not parse gets an error frame
TxnInvalid(c) ==
    /\ pc[c] = "multi"
    /\ HasQueuedFrame(c)
    /\ Read(c)
    /\ out' = [out EXCEPT ![c] =
                  Append(@, Frame(nrecv'[c], "queue", Invalid, <<>>,
                                  ErrorValue("Unrecognized command")))]
    /\ UNCHANGED <<pc, alive, authed, cur, wait, txq, execRes, sid, shared, lock,
                   bpopKey, hubSeq, poisoned, build, requirepass, clock, more>>

\* process_transaction: DISCARD
TxnDiscard(c) ==
    /\ pc[c] = "multi"
    /\ alive[c]
    /\ Read(c)
    /\ txq' = [txq EXCEPT ![c] = <<>>]
    /\ out' = [out EXCEPT ![c] = Append(@, Frame(nrecv'[c], "discard", Discard, <<>>, OK))]
    /\ pc' = [pc EXCEPT ![c] = "ready"]
    /\ UNCHANGED <<alive, authed, cur, wait, execRes, sid, shared, lock, bpopKey,
                   hubSeq, poisoned, build, requirepass, clock, more>>

\* process_transaction: read error or disconnect
TxnAbandon(c) ==
    /\ pc[c] = "multi"
    /\ ~alive[c]
    /\ txq' = [txq EXCEPT ![c] = <<>>]
    /\ pc' = [pc EXCEPT ![c] = "closed"]
    /\ UNCHANGED <<alive, authed, nrecv, cur, wait, out, nops, execRes, sid, shared,
                   lock, bpopKey, hubSeq, poisoned, build, requirepass, clock, more>>

\* a batch that runs without the lock
ExecUnlocked(c) == FreeLock
\* the storage lock as held by the EXEC batch of connection c
ExecLock(c) == ConnLock(c)

\* process_transaction returns the queue on EXEC; process_incoming locks
ExecBegin(c) ==
    /\ pc[c] = "multi"
    /\ alive[c]
    /\ lock = FreeLock
    /\ ~poisoned
    /\ Read(c)
    /\ pc' = [pc EXCEPT ![c] = "exec"]
    /\ lock' = ExecLock(c)
    /\ execRes' = [execRes EXCEPT ![c] = <<>>]
    /\ cur' = [cur EXCEPT ![c] = [cmd |-> Exec, at |-> txq[c]]]
    /\ UNCHANGED <<alive, authed, wait, out, txq, sid, shared, bpopKey, hubSeq,
                   poisoned, build, requirepass, clock, more>>

\* a response that is not a Value is dropped by the EXEC loop
DropResponse(S, r, c) ==
    CASE r.k = "Block" ->
            [S EXCEPT !.bpopQ = DropReceiver(@, c),
                      !.xreadQ = DropReceiver(@, c),
                      !.hubChan = [j \in 1..Len(@) |->
                                      IF @[j].reply = c THEN [@[j] EXCEPT !.reply = 0]
                                      ELSE @[j]]]
      [] r.k = "Subscribed" -> [S EXCEPT !.clients[r.id].closed = TRUE]
      [] OTHER -> S

\* the element the EXEC loop pushes for a response
ExecElement(r) ==
    IF r.k \in {"Value", "Err"} THEN r.v ELSE Unsupported

\* the EXEC loop's handling of what the queued command returned
OnExecResponse(c, e) ==
    /\ SetShared(DropResponse(e.S, e.r, c))
    /\ poisoned' = e.panic
    /\ IF e.panic
       THEN /\ pc' = [pc EXCEPT ![c] = "closed"]
            /\ lock' = FreeLock
            /\ UNCHANGED <<execRes, txq>>
       ELSE /\ execRes' = [execRes EXCEPT ![c] = Append(@, ExecElement(e.r))]
            /\ txq' = [txq EXCEPT ![c] = Tail(@)]
            /\ UNCHANGED <<pc, lock>>

\* process_incoming's EXEC loop: one queued command, under the held lock
ExecStep(c) ==
    /\ pc[c] = "exec"
    /\ lock = ExecLock(c)
    /\ txq[c] # <<>>
    /\ OnExecResponse(c, ExecuteCommand(Head(txq[c]), c, nrecv[c], Shared, build))
    /\ UNCHANGED <<alive, authed, nrecv, cur, wait, out, nops, sid, bpopKey, hubSeq,
                   build, requirepass, clock, more>>

\* the EXEC loop is over: unlock and reply with the array
ExecEnd(c) ==
    /\ pc[c] = "exec"
    /\ lock = ExecLock(c)
    /\ txq[c] = <<>>
    /\ lock' = FreeLock
    /\ nrecv' = nrecv
    /\ Write(c, "exec", Exec, <<>>, ArrayValue(execRes[c]))
    /\ execRes' = [execRes EXCEPT ![c] = <<>>]
    /\ cur' = [cur EXCEPT ![c] = NoCur]
    /\ UNCHANGED <<alive, authed, wait, nops, txq, sid, shared, bpopKey, hubSeq,
                   poisoned, build, requirepass, clock, more>>

\* ----------------------------------------------------------- initial state
InitServer(bld, pass, data) ==
    /\ clock = 0
    /\ store = data
    /\ lock = FreeLock
    /\ pc = [c \in Conns |-> "ready"]
    /\ alive = [c \in Conns |-> TRUE]
    /\ authed = [c \in Conns |-> ~pass]
    /\ nrecv = [c \in Conns |-> 0]
    /\ cur = [c \in Conns |-> NoCur]
    /\ wait = [c \in Conns |-> NoWait]
    /\ out = [c \in Conns |-> <<>>]
    /\ nops = 0
    /\ txq = [c \in Conns |-> <<>>]
    /\ execRes = [c \in Conns |-> <<>>]
    /\ sid = [c \in Conns |-> 0]
    /\ bpopQ = <<>>
    /\ bpopChan = <<>>
    /\ bpopKey = NoKey
    /\ xreadQ = <<>>
    /\ xreadChan = <<>>
    /\ clients = <<>>
    /\ subRx = <<>>
    /\ hubChan = <<>>
    /\ hubSeq = 0
    /\ poisoned = FALSE
    /\ build = bld
    /\ requirepass = pass

\* nothing has been written to the socket
NoWire ==
    /\ written = <<>>
    /\ inflight = <<>>
    /\ rbuf = <<>>
    /\ decoded = <<>>
    /\ rstate = "ok"

\* no snapshot has been saved
NoDisk ==
    /\ file = <<>>
    /\ snapshot = [k \in Keys |-> NoValue]
    /\ boots = 0

\* spawn_server_tasks: every task is in its loop
TaskNames == {"bpop", "xread", "pubsub", "cleanup", "persist"}
NoTasks ==
    /\ shutdown = FALSE
    /\ task = [name \in TaskNames |-> "loop"]
    /\ changes = 0
    /\ lastSave = 0
    /\ finalSaves = 0

\* the mutexes of Queues, and the threads that take locks: the connection
\* tasks, the background tasks and the blocking-pool thread of a save
QueueNames == {"bpop", "xread", "pubsub"}
Threads == TaskNames \cup {"save"}
\* a position: where the thread is, the queue it uses ("-": none), how many
\* commands it has still to execute under the storage lock, and whether
\* they are one command ("command") or the queue of an EXEC ("batch")
Step(at, q, left, mode) == [at |-> at, q |-> q, left |-> left, mode |-> mode]
NoSync ==
    /\ qlock = [q \in QueueNames |-> FreeLock]
    /\ cstep = [c \in Conns |-> Step("next", "-", 0, "-")]
    /\ tstep = [t \in Threads |->
                  Step(CASE t \in {"cleanup", "persist"} -> "tick"
                         [] t = "save" -> "idle"
                         [] OTHER -> "recv", "-", 0, "-")]

\* nothing has been read and nothing is held back in the write buffer
NoPipe ==
    /\ inbuf = [c \in Conns |-> [frames |-> <<>>, partial |-> FALSE]]
    /\ flushed = [c \in Conns |-> 0]

InitFrom(bld, pass, data) ==
    InitServer(bld, pass, data) /\ NoWire /\ NoDisk /\ NoTasks /\ NoSync /\ NoPipe

\* the server starts on an empty store
InitWith(bld, pass) == InitFrom(bld, pass, [k \in Keys |-> NoValue])

\* ------------------------------------------------ lists and blocking pops
ListCmds ==
    {PushCmd("K", <<"x">>, "Right"), PushCmd("K", <<"x", "y">>, "Right"),
     PushCmd("K", <<"x", "y">>, "Left"), PushCmd("J", <<"x">>, "Right"),
     PopCmd("K", "Left", 1), PopCmd("K", "Right", 1),
     BPopCmd("K", "Left", 0), BPopCmd("K", "Right", 0),
     BPopCmd("K", "Left", 100), BPopCmd("J", "Left", 0)}

InitList == InitWith("release", FALSE)

NextList ==
    \/ \E c \in Conns, cmd \in ListCmds : ConnExecute(c, cmd)
    \/ \E c \in Conns : ConnWake(c)
    \/ \E c \in Conns : ConnTimeout(c)
    \/ BPopRecv
    \/ BPopIter
    \/ CleanupDisconnected

SpecList == InitList /\ [][NextList]_vars

\* the tasks and the awaiting connections are scheduled by the runtime
FairList ==
    /\ WF_vars(BPopRecv)
    /\ WF_vars(BPopIter)
    /\ \A c \in Conns : WF_vars(ConnWake(c))
FairSpecList == SpecList /\ FairList

\* the open waiter of connection c in the bpop queue
OpenWaiter(c) == CHOOSE i \in 1..Len(bpopQ) : bpopQ[i].conn = c /\ ~bpopQ[i].closed

\* the element at the end of list l that direction dir names
EndOf(l, dir) == IF dir = "Left" THEN Head(l) ELSE l[Len(l)]

\* C2: when the bpop task completes a waiter on a key, no waiter enqueued
\* earlier on that key with an open receiver is still waiting, the element
\* comes from the end of the list named by the waiter's own command, and
\* every other waiter stays in the queue
C2_FifoOwnDirection ==
    [][\A c \in Conns :
          (wait[c].st = "pending" /\ wait'[c].st = "ready" /\ cur[c].cmd.op = "BPOP")
          => LET i == OpenWaiter(c)
                 key == cur[c].cmd.key
             IN  /\ bpopQ[i].key = key
                 /\ \A j \in 1..(i - 1) : ~(bpopQ[j].key = key /\ ~bpopQ[j].closed)
                 /\ store[key].t = "list"
                 /\ wait'[c].val = <<EndOf(store[key].v, cur[c].cmd.dir)>>
                 /\ bpopQ' = RemoveAt(bpopQ, i)]_vars

\* W1 then W2 blocked on K, RPUSH K x: W1 got [K, x] and W2 still waits
C2_Witness ==
    /\ Len(out[1]) = 1
    /\ out[1][1].via = "wake"
    /\ out[1][1].val = ArrayValue(<<"K", "x">>)
    /\ pc[2] = "blocked" /\ wait[2].st = "pending"
    /\ cur[2].cmd.op = "BPOP" /\ cur[2].cmd.key = "K"
    /\ Len(out[3]) = 1 /\ out[3][1].val = IntValue(1)
    /\ bpopKey = NoKey /\ bpopChan = <<>>

\* connection c waits without a timeout on key, which holds a list
WaitsOnList(c, key) ==
    /\ pc[c] = "blocked" /\ wait[c].st = "pending"
    /\ cur[c].cmd = BPopCmd(key, cur[c].cmd.dir, 0)
    /\ store[key].t = "list"

\* connection c has been sent the reply to its pop on key
GotElement(c, key) ==
    \E j \in 1..Len(out[c]) :
        /\ out[c][j].via = "wake" /\ out[c][j].i = nrecv[c]
        /\ out[c][j].req.op = "BPOP" /\ out[c][j].req.key = key

\* C3: a waiter without a timeout on a key whose list has an element is
\* eventually sent [key, element], unless the list is emptied first
C3_NoLostWakeup ==
    \A c \in Conns : \A key \in Keys :
        WaitsOnList(c, key) ~> (GotElement(c, key) \/ store[key].t # "list")

\* a waiter blocked on the empty K was woken with [K, x] by a later push
C3_Witness ==
    \E c \in Conns :
        /\ GotElement(c, "K")
        /\ out[c][Len(out[c])].val = ArrayValue(<<"K", "x">>)
        /\ cur[c] = NoCur /\ pc[c] = "ready"

\* ------------------------------------------------------------------ pub/sub
PubSubCmds ==
    {Subscribe(<<"a">>), Subscribe(<<"a", "b">>), Publish("a", "Hello"),
     Publish("b", "Goodbye"), Ping}
SubModeCmds == {Ping, Subscribe(<<"b">>), Unsubscribe(<<>>), Unsubscribe(<<"a">>)}
OtherCmds == {Get("K")}

InitPubSub == InitWith("release", FALSE)

NextPubSub ==
    \/ \E c \in Conns, cmd \in PubSubCmds : ConnExecute(c, cmd)
    \/ \E c \in Conns : ConnWake(c)
    \/ HubStep
    \/ \E c \in Conns : SubDeliver(c)
    \/ \E c \in Conns, cmd \in SubModeCmds : SubCommand(c, cmd)
    \/ \E c \in Conns, cmd \in OtherCmds : SubReject(c, cmd)
    \/ \E c \in Conns : Disconnect(c)
    \/ \E c \in Conns : ConnEof(c)
    \/ CleanupDisconnected

SpecPubSub == InitPubSub /\ [][NextPubSub]_vars

\* the frames on connection c that answer one of its commands
Answers(c) == SelectSeq(out[c], LAMBDA f : f.i # 0)

\* C1: on every connection the frames that answer commands are written in
\* the order of the commands, one command's frames never repeated (only the
\* hub's confirmations, one per channel of a command, share a command)
C1_ResponsesInOrder ==
    \A c \in Conns :
        LET a == Answers(c)
        IN  \A p, q \in 1..Len(a) :
                p < q => \/ a[p].i < a[q].i
                         \/ a[p].i = a[q].i /\ a[p].via = "hub" /\ a[q].via = "hub"

\* the hub sequence numbers of the messages connection c was sent, those
\* still in its mpsc included
Messages(c) ==
    LET sent == SelectSeq(out[c], LAMBDA f : f.via = "hub" /\ f.i = 0)
        got == [j \in 1..Len(sent) |-> sent[j].at]
        rx == IF pc[c] = "sub"
              THEN [j \in 1..Len(subRx[sid[c]]) |->
                      LET f == subRx[sid[c]][j] IN <<f.seq>> \o f.pub]
              ELSE <<>>
    IN  got \o SelectSeq(rx, LAMBDA m : m[1] # 0)

\* C6: every subscriber is sent messages in the order in which the hub
\* handled their PUBLISH events, none twice, and so two messages published
\* one after the other by one connection arrive in that order
C6_SubscriberFifo ==
    \A c \in Conns :
        LET m == Messages(c)
        IN  \A p, q \in 1..Len(m) :
                p < q => /\ m[p][1] < m[q][1]
                         /\ m[p][2] = m[q][2] => m[p][3] < m[q][3]

\* a subscriber of a and b was sent Hello then Goodbye, published by one
\* connection, the second after the reply to the first
C6_Witness ==
    \E c, d \in Conns :
        /\ Len(out[c]) = 4
        /\ out[c][3].val = ArrayValue(<<"message", "a", "Hello">>)
        /\ out[c][4].val = ArrayValue(<<"message", "b", "Goodbye">>)
        /\ out[c][3].at[2] = d /\ out[c][4].at[2] = d
        /\ Len(out[d]) = 2 /\ out[d][1].val = IntValue(1)

\* ------------------------------------------------------------ MULTI / EXEC
TxnCmds == {Multi, Subscribe(<<"a">>), Set("K", "v"), BPopCmd("K", "Left", 0)}
QueuedCmds ==
    {Set("K", "w"), PushCmd("K", <<"x">>, "Right"), BPopCmd("J", "Left", 0),
     Publish("a", "Hello"), Subscribe(<<"a">>), Multi,
     XReadCmd(<<<<"J", DollarId>>>>, 0)}

InitTxn == InitWith("release", FALSE)

NextTxn ==
    \/ \E c \in Conns, cmd \in TxnCmds : ConnExecute(c, cmd)
    \/ \E c \in Conns, cmd \in QueuedCmds : TxnQueue(c, cmd)
    \/ \E c \in Conns : TxnInvalid(c)
    \/ \E c \in Conns : TxnDiscard(c)
    \/ \E c \in Conns : TxnAbandon(c)
    \/ \E c \in Conns : ExecBegin(c)
    \/ \E c \in Conns : ExecStep(c)
    \/ \E c \in Conns : ExecEnd(c)
    \/ \E c \in Conns : ConnWake(c)
    \/ \E c \in Conns : pc[c] = "multi" /\ Disconnect(c)
    \/ HubStep
    \/ \E c \in Conns : SubDeliver(c)
    \/ BPopRecv
    \/ BPopIter
    \/ CleanupDisconnected

SpecTxn == InitTxn /\ [][NextTxn]_vars

\* the result val is one that command cmd can contribute to an EXEC reply
ResultFits(cmd, val) ==
    CASE cmd.op = "SET" -> val = OK
      [] cmd.op = "PUSH" -> val.t \in {"int", "err"} /\ val # Unsupported
      [] cmd.op = "BPOP" -> val.t = "arr" \/ val = Unsupported
      [] OTHER -> val = Unsupported

\* the last frame written to connection c
LastFrame(c) == out[c][Len(out[c])]

Steps(c) == nrecv'[c] # nrecv[c] \/ pc'[c] # pc[c]

\* C9: between MULTI and EXEC a frame is only queued (QUEUED, or an error
\* and the queue as it was), DISCARD replies OK and empties the queue, a
\* disconnect empties it, and none of these steps changes the store, the
\* waiter queues, the notifications or the subscribers
C9_QueuedOnly ==
    [][\A c \in Conns :
          (pc[c] = "multi" /\ Steps(c) /\ pc'[c] # "exec") =>
              /\ UNCHANGED <<store, bpopQ, bpopChan, xreadQ, xreadChan, clients,
                             subRx, hubChan, wait>>
              /\ CASE pc'[c] = "multi" ->
                        /\ out'[c] = Append(out[c], LastFrame(c)')
                        /\ \/ /\ LastFrame(c)'.val = SimpleString("QUEUED")
                              /\ Len(txq'[c]) = Len(txq[c]) + 1
                           \/ /\ LastFrame(c)'.val.t = "err"
                              /\ txq'[c] = txq[c]
                   [] pc'[c] = "ready" ->
                        /\ out'[c] = Append(out[c], LastFrame(c)')
                        /\ LastFrame(c)'.val = SimpleString("OK")
                        /\ txq'[c] = <<>>
                   [] OTHER -> txq'[c] = <<>> /\ out'[c] = out[c]]_vars

\* two frames were queued and then discarded, and nothing has happened
C9_Witness ==
    \E c \in Conns :
        /\ Len(out[c]) = 4
        /\ out[c][2].via = "queue" /\ out[c][3].via = "queue"
        /\ out[c][2].val = Queued /\ out[c][3].val = Queued
        /\ out[c][4].via = "discard"
        /\ pc[c] = "ready" /\ txq[c] = <<>>
        /\ store = [k \in Keys |-> NoValue]
        /\ bpopQ = <<>> /\ hubChan = <<>> /\ clients = <<>>

\* a message in a subscriber's mpsc that was published from an EXEC batch
FromExec(f) == f.pub[1] # 0 /\ f.pub[3] = 0

\* C10: an EXEC step whose element is the Unsupported error changes neither
\* the store, nor the waiter queues, nor the pub/sub clients, nor what the
\* hub has to handle, and no subscriber is sent a message from such a step
C10_UnsupportedNoEffect ==
    [][/\ \A c \in Conns :
             (/\ pc[c] = "exec"
              /\ Len(execRes'[c]) = Len(execRes[c]) + 1
              /\ execRes'[c][Len(execRes'[c])] = Unsupported)
             => UNCHANGED <<store, bpopQ, xreadQ, clients, subRx, hubChan>>
       /\ \A id \in 1..Len(subRx') : \A j \in 1..Len(subRx'[id]) :
             ~FromExec(subRx'[id][j])]_vars

\* --------------------------------------------------------------------- AUTH
AuthCmds ==
    {Auth(Password), Auth("bad"), Set("K", "v"), PushCmd("K", <<"x">>, "Right"),
     BPopCmd("K", "Left", 0), Subscribe(<<"a">>), Publish("a", "Hello")}

InitAuth == InitWith("release", TRUE)

NextAuth ==
    \/ \E c \in Conns, cmd \in AuthCmds : ConnExecute(c, cmd)
    \/ \E c \in Conns, cmd \in AuthCmds : ConnNoAuth(c, cmd)
    \/ \E c \in Conns : ConnInvalid(c)
    \/ \E c \in Conns : ConnWake(c)
    \/ BPopRecv
    \/ BPopIter
    \/ HubStep
    \/ \E c \in Conns : SubDeliver(c)

SpecAuth == InitAuth /\ [][NextAuth]_vars

Builds == {"debug", "release"}
StreamIds == {ExplicitId(ms, seq) : ms \in 0..MaxMs, seq \in 0..U64Max}
StreamCmds ==
    {XAddCmd("K", id) : id \in StreamIds \cup {AutoSeqId(ms) : ms \in 0..MaxMs}}
    \cup {XAddCmd("J", ExplicitId(0, 1))}
    \cup {XReadCmd(<<<<"K", id>>>>, 0) : id \in StreamIds \cup {DollarId}}
    \cup {XReadCmd(<<<<"K", id>>>>, NoBlock) :
             id \in {ExplicitId(0, 0), ExplicitId(0, U64Max), DollarId}}
    \cup {XReadCmd(<<<<"K", DollarId>>>>, 100),
          XReadCmd(<<<<"J", DollarId>>, <<"K", DollarId>>>>, 0)}

InitStream == \E bld \in Builds : InitWith(bld, FALSE)

NextStream ==
    \/ \E c \in Conns, cmd \in StreamCmds : ConnExecute(c, cmd)
    \/ \E c \in Conns : ConnWake(c)
    \/ \E c \in Conns : ConnTimeout(c)
    \/ XReadTask
    \/ CleanupDisconnected

SpecStream == InitStream /\ [][NextStream]_vars

\* the start id of stream key in the parsed streams of an XREAD
StartId(parsed, key) ==
    LET p == CHOOSE q \in {parsed[j] : j \in 1..Len(parsed)} : q[1] = key
    IN  <<p[2].ms, p[2].seq>>

\* every entry of an XREAD reply lies after the start id of its stream
AfterStart(parsed, response) ==
    \A j \in 1..Len(response) : \A k \in 1..Len(response[j][2]) :
        IdLess(StartId(parsed, response[j][1]), response[j][2][k])

\* C7: no reply to XREAD, immediate or after blocking, holds an entry whose
\* id is less than or equal to the start id the command had for that stream
C7_XReadExclusive ==
    \A c \in Conns : \A j \in 1..Len(out[c]) :
        (out[c][j].req.op = "XREAD" /\ out[c][j].val.t = "arr")
        => AfterStart(out[c][j].at, out[c][j].val.v)

\* connection c is an open waiter of the xread queue
XReadWaits(c) ==
    /\ pc[c] = "blocked" /\ wait[c].st = "pending" /\ cur[c].cmd.op = "XREAD"
    /\ \E j \in 1..Len(xreadQ) : xreadQ[j].conn = c /\ ~xreadQ[j].closed

\* stream key holds an entry after the start id waiter c has for it
HasNews(c, key) ==
    /\ \E j \in 1..Len(cur[c].at) : cur[c].at[j][1] = key
    /\ store[key].t = "stream"
    /\ \E k \in 1..Len(store[key].v) :
          IdLess(StartId(cur[c].at, key), store[key].v[k])

\* C8: a blocked XREAD is completed only with entries after its start ids,
\* and leaves the queue then; the other waiters stay queued; and an XADD
\* after a waiter's start id is not missed: while the waiter is queued the
\* key's notification is still to be handled by the running task
C8_XReadWake ==
    [][/\ \A c \in Conns :
             (XReadWaits(c) /\ wait'[c].st = "ready") =>
                 /\ AfterStart(cur[c].at, wait'[c].val)
                 /\ wait'[c].val # <<>>
                 /\ \A j \in 1..Len(xreadQ') :
                       xreadQ'[j].conn = c => xreadQ'[j].closed
       /\ \A c \in Conns :
             (XReadWaits(c) /\ wait'[c].st = "pending" /\ pc'[c] = "blocked")
                 => \E j \in 1..Len(xreadQ') :
                       xreadQ'[j].conn = c /\ ~xreadQ'[j].closed
       /\ \A c \in Conns : \A key \in Keys :
             (XReadWaits(c) /\ HasNews(c, key))' =>
                 (~poisoned' /\ \E j \in 1..Len(xreadChan') : xreadChan'[j] = key)
      ]_vars

\* the ids of every live stream increase strictly and 0-0 is not among them
Ordered(st) ==
    \A key \in Keys :
        st[key].t = "stream" =>
            /\ \A k \in 1..Len(st[key].v) : st[key].v[k] # <<0, 0>>
            /\ \A k \in 1..(Len(st[key].v) - 1) : IdLess(st[key].v[k], st[key].v[k + 1])

\* the ids of the stream at key, none when the key is absent
IdsAt(st, key) == IF st[key].t = "stream" THEN st[key].v ELSE <<>>

\* the reply to an XADD and its effect: an id above the old top, appended,
\* or an error and the store as it was
XAddOutcome(c, cmd) ==
    LET top == TopId(store, cmd.key)
        f == out'[c][Len(out'[c])]
    IN  /\ out'[c] # out[c]
        /\ IF f.val.t = "err"
           THEN store' = store
           ELSE /\ f.val.t = "bulk"
                /\ LET id == <<f.val.v[1].ms, f.val.v[1].seq>>
                   IN  /\ IdLess(top, id)
                       /\ cmd.id.kind = "id" => id = <<cmd.id.ms, cmd.id.seq>>
                       /\ cmd.id.kind = "auto" => id[1] = cmd.id.ms
                       /\ IdsAt(store', cmd.key) = Append(IdsAt(store, cmd.key), id)
                       /\ \A k \in Keys \ {cmd.key} : store'[k] = store[k]
        /\ (cmd.id.kind = "id" /\ IdLeq(<<cmd.id.ms, cmd.id.seq>>, top)) => f.val.t = "err"

\* C12: the ids of every stream increase strictly and never hold 0-0; every
\* XADD is answered, with an id above the stream's top that it appended, or
\* with an error that leaves the store (and the absence of the key) as it was
C12_XAddIncreasing ==
    [][/\ Ordered(store')
       /\ \A c \in Conns :
             nrecv'[c] # nrecv[c] =>
                 \A cmd \in StreamCmds :
                     (cmd.op = "XADD" /\ ConnExecute(c, cmd)) => XAddOutcome(c, cmd)
      ]_vars

\* -------------------------------------------------------------- sorted sets
ZSetCmds ==
    {ZAddCmd("K", <<<<sc, m>>>>) : sc \in {1, 5}, m \in {"bar", "foo"}}
    \cup {ZAddCmd("K", <<<<a, m>>, <<b, m>>>>) : a, b \in {1, 5}, m \in {"bar"}}
    \cup {ZAddCmd("K", <<<<1, "foo">>, <<5, "bar">>, <<3, "baz">>>>)}
    \cup {ZRemCmd("K", ms) : ms \in {<<"bar">>, <<"foo">>, <<"foo", "bar">>, <<"baz", "baz">>}}
    \cup {GeoAddCmd("K", <<<<<<1, 2>>, "bar">>>>), GeoAddCmd("K", <<<<<<3, 0>>, "foo">>>>)}
    \cup {ZRangeCmd("K", 0, 0 - 1)}
    \cup {ZRankCmd("K", m) : m \in Members}

InitZSet == InitWith("release", FALSE)

NextZSet == \E c \in Conns, cmd \in ZSetCmds : ConnExecute(c, cmd)

SpecZSet == InitZSet /\ [][NextZSet]_vars

\* the pairs of the score map and of the ordered index
HashPairs(o) == {<<m, o.v[1][m]>> : m \in DOMAIN o.v[1]}
RankedPairs(o) == {<<o.v[2][i].member, o.v[2][i].score>> : i \in 1..Len(o.v[2])}

\* C11: for every key holding a sorted set, the member-to-score map and the
\* ordered index hold the same members with the same scores, and as many
C11_IndicesAgree ==
    \A key \in Keys :
        store[key].t = "zset" =>
            /\ HashPairs(store[key]) = RankedPairs(store[key])
            /\ Cardinality(DOMAIN store[key].v[1]) = Len(store[key].v[2])

\* the frames written to any connection
AllFrames == UNION {{out[c][j] : j \in 1..Len(out[c])} : c \in Conns}

C11_Witness ==
    /\ store["K"].t = "zset"
    /\ \E f \in AllFrames :
          /\ f.req.op = "ZADD" /\ Len(f.req.members) = 2
          /\ f.req.members[1][2] = f.req.members[2][2]
          /\ f.req.members[1][1] # f.req.members[2][1]
          /\ f.val = IntValue(0)
    /\ \E f \in AllFrames : f.req.op = "ZREM" /\ f.val = IntValue(1)

\* the score map of the sorted set at key, empty when there is none
HashAt(st, key) == IF st[key].t = "zset" THEN st[key].v[1] ELSE EmptyHash

\* member x comes before member y: lower score, or same score and lower bytes
Before(hash, x, y) ==
    \/ hash[x] < hash[y]
    \/ (hash[x] = hash[y] /\ MemberRank(x) < MemberRank(y))

\* the score the last pair naming member gives it
LastScore(members, member) ==
    LET i == CHOOSE i \in 1..Len(members) :
                /\ members[i][2] = member
                /\ \A j \in (i + 1)..Len(members) : members[j][2] # member
    IN  members[i][1]

\* C20: ZADD replies the number of its members that were not in the set
\* before and leaves each named member with its last given score; ZRANGE 0 -1
\* lists all members by ascending score, ties by member bytes; ZRANK replies
\* the number of members that come before the member in that order
C20_ZAddCountsNew ==
    [][\A c \in Conns :
          (nrecv'[c] # nrecv[c] /\ Len(out'[c]) = Len(out[c]) + 1) =>
              LET f == out'[c][Len(out'[c])]
                  old == HashAt(store, "K")
                  new == HashAt(store', "K")
              IN  /\ f.req.op = "ZADD" =>
                        LET named == {f.req.members[i][2] : i \in 1..Len(f.req.members)}
                        IN  /\ f.val = IntValue(Cardinality(named \ DOMAIN old))
                            /\ DOMAIN new = DOMAIN old \cup named
                            /\ \A m \in named : new[m] = LastScore(f.req.members, m)
                            /\ \A m \in DOMAIN old \ named : new[m] = old[m]
                  /\ (f.req.op = "ZRANGE" /\ f.req.start = 0 /\ f.req.stop = 0 - 1) =>
                        /\ f.val.t = "arr"
                        /\ Len(f.val.v) = Cardinality(DOMAIN old)
                        /\ {f.val.v[i] : i \in 1..Len(f.val.v)} = DOMAIN old
                        /\ \A i \in 1..(Len(f.val.v) - 1) :
                              Before(old, f.val.v[i], f.val.v[i + 1])
                  /\ f.req.op = "ZRANK" =>
                        IF f.req.member \in DOMAIN old
                        THEN f.val = IntValue(Cardinality(
                                 {m \in DOMAIN old : Before(old, m, f.req.member)}))
                        ELSE f.val = NilString
      ]_vars

C20_Witness ==
    \E c \in Conns : \E i, j, k \in 1..Len(out[c]) :
        /\ i < j /\ j < k
        /\ out[c][i].req = ZAddCmd("K", <<<<1, "foo">>, <<5, "bar">>, <<3, "baz">>>>)
        /\ out[c][i].val = IntValue(3)
        /\ out[c][j].req = ZAddCmd("K", <<<<1, "bar">>>>)
        /\ out[c][j].val = IntValue(0)
        /\ out[c][k].req.op = "ZRANGE"
        /\ out[c][k].val = ArrayValue(<<"bar", "foo", "baz">>)

\* ------------------------------------------------------------------ expiry
ExpireCmds ==
    {SetPx("K", "v", 1), Set("K", "w"), Set("J", "w"), Get("K"), TypeCmd("K"),
     TtlCmd("K"), DbSize, FlushDb, DelCmd(<<"K">>), DelCmd(<<"J", "K">>), IncrCmd("K"),
     PushCmd("K", <<"x">>, "Left"), PopCmd("K", "Left", 1), LLenCmd("K"),
     SAddCmd("K", <<"bar">>), SRemCmd("K", <<"bar">>),
     ZAddCmd("K", <<<<1, "bar">>>>), ZRangeCmd("K", 0, 0 - 1),
     XAddCmd("K", ExplicitId(0, 1)), XReadCmd(<<<<"K", ExplicitId(0, 0)>>>>, NoBlock)}

InitExpire == InitWith("release", FALSE)

NextExpire ==
    \/ \E c \in Conns, cmd \in ExpireCmds : ConnExecute(c, cmd)
    \/ Tick
    \/ CleanupExpiredTick

SpecExpire == InitExpire /\ [][NextExpire]_vars

\* C13: whatever command comes next, its reply and the live entries it
\* leaves are the same on the store as it is and on the store swept of its
\* expired entries
C13_SweepIndependent ==
    \A cmd \in ExpireCmds :
        LET kept == ExecuteCommand(cmd, 1, 1, Shared, build)
            swept == ExecuteCommand(cmd, 1, 1,
                        [Shared EXCEPT !.store = CleanupExpired(store)], build)
        IN  /\ kept.r = swept.r
            /\ CleanupExpired(kept.S.store) = CleanupExpired(swept.S.store)

\* ------------------------------------------------- one key, several types
TypeCmds ==
    {Set("K", "v"), Get("K"), IncrCmd("K"), TypeCmd("K"), DelCmd(<<"K">>),
     PushCmd("K", <<"x">>, "Left"), PopCmd("K", "Left", 1), PopCmd("K", "Right", 2),
     LLenCmd("K"), LRangeCmd("K", 0, 0 - 1), BPopCmd("K", "Left", 0),
     SAddCmd("K", <<"bar">>), SRemCmd("K", <<"bar">>),
     ZAddCmd("K", <<<<1, "bar">>>>), ZRemCmd("K", <<"bar">>),
     XAddCmd("K", ExplicitId(0, 1))}

InitTypes == InitWith("release", FALSE)

NextTypes ==
    \/ \E c \in Conns, cmd \in TypeCmds : ConnExecute(c, cmd)
    \/ \E c \in Conns : ConnWake(c)
    \/ BPopRecv
    \/ BPopIter

SpecTypes == InitTypes /\ [][NextTypes]_vars

\* the type of value a command works on
TypeOf(op) ==
    CASE op \in {"GET", "INCR"} -> "string"
      [] op \in {"PUSH", "POP", "LLEN", "LRANGE"} -> "list"
      [] op = "SADD" -> "set"
      [] op = "ZADD" -> "zset"
      [] op = "XADD" -> "stream"
      [] OTHER -> "any"

\* C14: GET, INCR, LPUSH, LPOP, LLEN, LRANGE, SADD, ZADD or XADD on a live key
\* that holds a value of another type is answered with an error, and the store
\* stays as it was
C14_WrongTypeError ==
    [][\A c \in Conns :
          (nrecv'[c] # nrecv[c] /\ Len(out'[c]) = Len(out[c]) + 1) =>
              LET f == out'[c][Len(out'[c])]
                  held == GetData(store, f.req.key).t
              IN  (/\ TypeOf(f.req.op) # "any"
                   /\ held \notin {"none", TypeOf(f.req.op)})
                  => (f.val.t = "err" /\ store' = store)
      ]_vars

\* C15: no live key holds a list, a set or a sorted set without elements
C15_NoEmptyContainer ==
    \A key \in Keys :
        LET o == GetData(store, key)
        IN  /\ o.t = "list" => o.v # <<>>
            /\ o.t = "set" => o.v # {}
            /\ o.t = "zset" => (DOMAIN o.v[1] # {} /\ o.v[2] # <<>>)

\* a pushed element is handed to a blocked BLPOP, and TYPE, asked after the
\* push on the same connection, finds no key
C15_Witness ==
    /\ store["K"].t = "none"
    /\ \E c \in Conns : \E i, j \in 1..Len(out[c]) :
          /\ i < j
          /\ out[c][i].req.op = "PUSH"
          /\ out[c][i].val = IntValue(1)
          /\ out[c][j].req.op = "TYPE"
          /\ out[c][j].val = SimpleString("none")
    /\ \E f \in AllFrames : f.via = "wake" /\ f.req.op = "BPOP" /\ f.val.t = "arr"

\* ------------------------------------------- commands under the storage lock
\* a command that runs without holding the mutex
CommandUnlocked(c) == FreeLock
\* process_command: the guard `storage_lock` of connection c
StorageLock(c) == ConnLock(c)

\* process_command: storage.lock(); the command starts on the store it finds
CommandBegin(c, cmd) ==
    /\ CanRead(c)
    /\ AuthGate(authed[c], cmd)
    /\ lock = FreeLock
    /\ ~poisoned
    /\ Read(c)
    /\ pc' = [pc EXCEPT ![c] = "locked"]
    /\ lock' = StorageLock(c)
    /\ cur' = [cur EXCEPT ![c] = [cmd |-> cmd, at |-> <<store>>]]
    /\ UNCHANGED <<alive, authed, wait, out, txq, execRes, sid, shared, bpopKey,
                   hubSeq, poisoned, build, requirepass, clock, more>>

\* what the command returned goes to the socket
OnCommandEnd(c, e) ==
    /\ SetShared(e.S)
    /\ poisoned' = e.panic
    /\ nrecv' = nrecv
    /\ IF e.panic
       THEN /\ pc' = [pc EXCEPT ![c] = "closed"]
            /\ out' = out
       ELSE Write(c, "value", cur[c].cmd, e.r.at, e.r.v)

\* command.execute writes what it computed from the store it started on, and
\* the guard is dropped at the end of the block
CommandEnd(c) ==
    /\ pc[c] = "locked"
    /\ lock = StorageLock(c)
    /\ lock' = FreeLock
    /\ OnCommandEnd(c, ExecuteCommand(cur[c].cmd, c, nrecv[c],
                                      [Shared EXCEPT !.store = cur[c].at[1]], build))
    /\ cur' = [cur EXCEPT ![c] = NoCur]
    /\ UNCHANGED <<alive, authed, wait, nops, txq, execRes, sid, bpopKey, hubSeq,
                   build, requirepass, clock, more>>

IncrCmds == {IncrCmd("K"), IncrCmd("J"), Get("K"), Get("J"), TypeCmd("K")}

InitIncr == InitWith("release", FALSE)

NextIncr ==
    \/ \E c \in Conns, cmd \in IncrCmds : CommandBegin(c, cmd)
    \/ \E c \in Conns : CommandEnd(c)

SpecIncr == InitIncr /\ [][NextIncr]_vars

\* the replies to the INCRs of a key so far, as (connection, frame) pairs
IncrFrames(key) ==
    {p \in Conns \X (1..MaxCmds + 1) :
        p[2] <= Len(out[p[1]]) /\ out[p[1]][p[2]].req = IncrCmd(key)}

\* the n INCRs of a key answered so far returned 1..n, each once, and between
\* commands the key holds n
IncrCounts(key) ==
    LET n == Cardinality(IncrFrames(key))
    IN  /\ \A p \in IncrFrames(key) : out[p[1]][p[2]].val.t = "int"
        /\ {out[p[1]][p[2]].val.v[1] : p \in IncrFrames(key)} = 1..n
        /\ lock = FreeLock =>
               IF n = 0 THEN store[key].t = "none"
               ELSE store[key].t = "string" /\ store[key].v = <<IntToString(n)>>

\* a command completes as if it ran alone on the store of that moment
RunsAlone(c) ==
    (pc[c] = "locked" /\ pc'[c] # "locked") =>
        LET e == ExecuteCommand(cur[c].cmd, c, nrecv[c], Shared, build)
        IN  /\ store' = e.S.store
            /\ Len(out'[c]) = Len(out[c]) + 1
            /\ out'[c][Len(out'[c])].val = e.r.v

\* C16: the commands of different connections take effect one at a time, in the
\* order in which they complete: each reply and each store are those of the
\* command run alone on the store before it, and n INCRs of a missing key
\* return 1..n, each once, and leave n
C16_Linearizable ==
    /\ [](\A key \in {"K", "J"} : IncrCounts(key))
    /\ [][\A c \in Conns : RunsAlone(c)]_vars

\* three connections have each had one INCR K answered, and GET would read 3
C16_Witness ==
    /\ \A c \in Conns : \E j \in 1..Len(out[c]) : out[c][j].req = IncrCmd("K")
    /\ store["K"].t = "string"
    /\ store["K"].v = <<IntToString(NumConns)>>

\* --------------------------------------------- blocking pops and their timer
\* connection c awaits the Block future of a BLPOP/BRPOP
AwaitsBPop(c) == pc[c] = "blocked" /\ cur[c].cmd.op = "BPOP"

\* the reply to an awaited BLPOP/BRPOP: [key, element] when an element was sent
\* on its oneshot, the nil array when its timer, armed with timeout_millis > 0,
\* fires while nothing was sent
BPopReply(c) ==
    (AwaitsBPop(c) /\ out'[c] # out[c]) =>
        LET f == out'[c][Len(out'[c])]
        IN  /\ Len(out'[c]) = Len(out[c]) + 1
            /\ f.req = cur[c].cmd
            /\ pc'[c] = "ready"
            /\ \/ /\ wait[c].st = "ready"
                  /\ f.val = ArrayValue(<<cur[c].cmd.key, wait[c].val[1]>>)
               \/ /\ wait[c].st = "pending"
                  /\ cur[c].cmd.timeout_millis > 0
                  /\ f.val = NilArray

\* an awaited BLPOP/BRPOP stays awaited until its reply is written
BPopStays(c) == (AwaitsBPop(c) /\ out'[c] = out[c]) => pc'[c] = "blocked"

\* the element sent to a waiter is one popped from the list of its key
BPopHandsOff(c) ==
    (AwaitsBPop(c) /\ wait[c].st = "pending" /\ wait'[c].st = "ready") =>
        LET o == GetData(store, cur[c].cmd.key)
        IN  /\ o.t = "list"
            /\ \E i \in 1..Len(o.v) : o.v[i] = wait'[c].val[1]
            /\ LLen(store', cur[c].cmd.key) = Len(o.v) - 1

\* C17: an awaited BLPOP/BRPOP gets exactly one reply: [key, element] if an
\* element was handed to it, the nil array if its timeout is positive and fires
\* first; with timeout 0 nothing is replied before the hand-off
C17_BPopReplies ==
    [][\A c \in Conns : BPopReply(c) /\ BPopStays(c) /\ BPopHandsOff(c)]_vars

\* one BLPOP with a positive timeout was answered by its timer and another by
\* a pushed element
C17_Witness ==
    /\ \E f \in AllFrames :
          f.via = "timeout" /\ f.req = BPopCmd("K", "Left", 100) /\ f.val = NilArray
    /\ \E f \in AllFrames :
          f.via = "wake" /\ f.req = BPopCmd("K", "Left", 100)
                         /\ f.val = ArrayValue(<<"K", "x">>)

\* ------------------------------------------------- who a PUBLISH reaches
\* the hub is about to process a Message event
HubPublishes == hubChan # <<>> /\ Head(hubChan).ev = "Message" /\ hubChan' = Tail(hubChan)

\* registered, subscribed to the channel, receiver open
OpenSubscriber(id, channel) ==
    /\ clients[id].present
    /\ ~clients[id].closed
    /\ channel \in clients[id].channels

\* the hub sends one [message, ch, m] to each open subscriber of ch and to no
\* other client, and hands their number to the publisher
PublishReaches ==
    HubPublishes =>
        LET event == Head(hubChan)
            n == Cardinality({id \in 1..Len(clients) : OpenSubscriber(id, event.channel)})
        IN  /\ \A id \in 1..Len(clients) :
                  IF OpenSubscriber(id, event.channel)
                  THEN /\ Len(subRx'[id]) = Len(subRx[id]) + 1
                       /\ SubSeq(subRx'[id], 1, Len(subRx[id])) = subRx[id]
                       /\ subRx'[id][Len(subRx'[id])].val =
                              ArrayValue(<<"message", event.channel, event.message>>)
                  ELSE subRx'[id] = subRx[id]
            /\ event.reply # 0 => wait'[event.reply] = ReadyWait(<<n>>)

\* the count the hub handed over is the integer PUBLISH replies
PublishReplies(c) ==
    (pc[c] = "blocked" /\ cur[c].cmd.op = "PUBLISH" /\ out'[c] # out[c]) =>
        /\ wait[c].st = "ready"
        /\ out'[c] = Append(out[c], out'[c][Len(out'[c])])
        /\ out'[c][Len(out'[c])].val = IntValue(wait[c].val[1])

\* C18: PUBLISH ch m replies the number of registered clients subscribed to ch
\* with an open receiver at the moment the hub processes the message; each of
\* them is sent one [message, ch, m], and no other client is sent anything
C18_PublishCount ==
    [][PublishReaches /\ \A c \in Conns : PublishReplies(c)]_vars

\* a PUBLISH was answered 1 and its message reached a subscriber's socket
C18_Witness ==
    /\ \E f \in AllFrames : f.req = Publish("a", "Hello") /\ f.val = IntValue(1)
    /\ \E f \in AllFrames :
          f.via = "hub" /\ f.val = ArrayValue(<<"message", "a", "Hello">>)

\* -------------------------------------------- commands in subscribe mode
EnterCmds == {Subscribe(<<"a">>), Set("K", "v")}
AllowedCmds == {Ping, Subscribe(<<"b">>), Unsubscribe(<<>>)}
RefusedCmds == {Get("K"), Set("K", "w"), Publish("a", "Hello"), Quit, Reset}

InitSubMode == InitWith("release", FALSE)

NextSubMode ==
    \/ \E c \in Conns, cmd \in EnterCmds : ConnExecute(c, cmd)
    \/ HubStep
    \/ \E c \in Conns : SubDeliver(c)
    \/ \E c \in Conns, cmd \in AllowedCmds : SubCommand(c, cmd)
    \/ \E c \in Conns, cmd \in RefusedCmds : SubReject(c, cmd)

SpecSubMode == InitSubMode /\ [][NextSubMode]_vars

\* connection c, in subscribe mode, is answered directly for a frame it sent
SubAnswered(c) ==
    /\ pc[c] = "sub"
    /\ nrecv'[c] = nrecv[c] + 1
    /\ Len(out'[c]) = Len(out[c]) + 1

\* C19: in subscribe mode QUIT and RESET end subscribe mode; a command that is
\* not one of the subscribe-mode commands is answered with an error, leaves the
\* store as it was and leaves the connection in subscribe mode
C19_SubscribeMode ==
    [][\A c \in Conns :
          SubAnswered(c) =>
              LET f == out'[c][Len(out'[c])]
              IN  IF f.req.op \in {"QUIT", "RESET"}
                  THEN pc'[c] # "sub"
                  ELSE /\ f.val.t = "err"
                       /\ pc'[c] = "sub"
                       /\ shared' = shared
      ]_vars

\* ------------------------------------------------------ index ranges
\* the longest list and sorted set asked about
MaxLen == 3
\* how many range commands one behaviour asks
MaxRange == 1
ListElems == <<"x", "y", "z", "x", "y", "z">>
ZSetPairs == <<<<1, "foo">>, <<2, "bar">>, <<2, "baz">>, <<3, "foo">>, <<0, "bar">>, <<1, "baz">>>>
Indices == (0 - MaxLen - 2)..(MaxLen + 1)

RangeCmds ==
    {LRangeCmd("K", start, stop) : start \in Indices, stop \in Indices}
        \cup {ZRangeCmd("J", start, stop) : start \in Indices, stop \in Indices}

\* the store after RPUSH K of n elements and ZADD J of m members
RangeData(n, m) ==
    LET empty == [k \in Keys |-> NoValue]
        pushed == Push(empty, "K", SubSeq(ListElems, 1, n), "Right").store
    IN  ZAdd(pushed, "J", SubSeq(ZSetPairs, 1, m)).store

InitRange ==
    \E n \in 1..MaxLen, m \in 1..MaxLen : InitFrom("release", FALSE, RangeData(n, m))

NextRange ==
    \E c \in Conns, cmd \in RangeCmds : nops < MaxRange /\ ConnExecute(c, cmd)

SpecRange == InitRange /\ [][NextRange]_vars

\* an index counted from the end when negative
Translate(len, index) == IF index < 0 THEN len + index ELSE index

\* the elements the index rules select from a sequence
Selected(seq, start, stop) ==
    LET len == Len(seq)
        from == Translate(len, start)
        to == Min(Translate(len, stop), len - 1)
    IN  IF from >= len \/ from > to THEN <<>>
        ELSE SubSeq(seq, (IF from < 0 THEN 0 ELSE from) + 1, to + 1)

\* the members of the sorted set at key, lowest first
RankedMembers(key) == [i \in 1..Len(store[key].v[2]) |-> store[key].v[2][i].member]

\* C21: LRANGE and ZRANGE reply the elements at the translated positions start
\* through stop, and the empty array when the translated start is not below
\* the length or is above the translated stop
C21_RangeIndices ==
    \A f \in AllFrames :
        /\ f.req.op = "LRANGE" =>
               f.val = ArrayValue(Selected(store[f.req.key].v, f.req.start, f.req.stop))
        /\ f.req.op = "ZRANGE" =>
               f.val = ArrayValue(Selected(RankedMembers(f.req.key), f.req.start, f.req.stop))

\* ------------------------------------------------------------- counters
CounterCmds ==
    {Set("K", IntToString(I64Max)), Set("K", IntToString(I64Max - 1)),
     Set("K", IntToString(0 - I64Max - 1)), Set("K", "v"),
     PushCmd("K", <<"x">>, "Right"), IncrCmd("K"), Get("K")}

InitCounter == \E bld \in Builds : InitWith(bld, FALSE)

NextCounter == \E c \in Conns, cmd \in CounterCmds : ConnExecute(c, cmd)

SpecCounter == InitCounter /\ [][NextCounter]_vars

\* the texts that are a decimal integer of the signed type
DecimalTexts == {IntToString(n) : n \in (0 - I64Max - 1)..I64Max}

\* the integer INCR starts from: [ok, int]
Counter(o) ==
    IF o.t = "none" THEN [ok |-> TRUE, int |-> 0]
    ELSE IF o.t = "string" /\ o.v[1] \in DecimalTexts
    THEN [ok |-> TRUE, int |-> CHOOSE n \in (0 - I64Max - 1)..I64Max : IntToString(n) = o.v[1]]
    ELSE [ok |-> FALSE, int |-> 0]

\* what an INCR of connection c does in this step
IncrOutcome(c, key) ==
    LET from == Counter(GetData(store, key))
        f == out'[c][Len(out'[c])]
    IN  /\ Len(out'[c]) = Len(out[c]) + 1
        /\ f.req = IncrCmd(key)
        /\ IF from.ok /\ from.int < I64Max
           THEN /\ f.val = IntValue(from.int + 1)
                /\ store'[key].t = "string"
                /\ store'[key].v = <<IntToString(from.int + 1)>>
           ELSE /\ f.val.t = "err"
                /\ store' = store

\* C22: INCR replies and stores the stored integer plus one (1 on a missing
\* key); on a text that is no integer of the type, or on the largest integer
\* of the type, it replies an error and leaves the store as it was
C22_IncrAddsOne ==
    [][\A c \in Conns :
          \A key \in Keys :
              (nrecv'[c] # nrecv[c] /\ ConnExecute(c, IncrCmd(key))) => IncrOutcome(c, key)
      ]_vars

\* ------------------------------------------------------------ RESP codec
\* bytes are one-character tokens; CR and LF stand for \r and \n
CRLF == <<"CR", "LF">>

RECURSIVE NatBytes(_)
\* usize::to_string().as_bytes()
NatBytes(n) ==
    IF n < 10 THEN <<Digits[n + 1]>> ELSE NatBytes(n \div 10) \o <<Digits[(n % 10) + 1]>>
\* i64::to_string().as_bytes()
IntBytes(n) == IF n < 0 THEN <<"-">> \o NatBytes(0 - n) ELSE NatBytes(n)

RECURSIVE Encode(_)
RECURSIVE EncodeAll(_)
\* the bytes of the values, one after the other
EncodeAll(values) ==
    IF values = <<>> THEN <<>> ELSE Encode(Head(values)) \o EncodeAll(Tail(values))
\* Encoder::encode
Encode(item) ==
    CASE item.t = "bulk" -> <<"$">> \o NatBytes(Len(item.v[1])) \o CRLF \o item.v[1] \o CRLF
      [] item.t = "simple" -> <<"+">> \o item.v[1] \o CRLF
      [] item.t = "err" -> <<"-">> \o item.v[1] \o CRLF
      [] item.t = "int" -> <<":">> \o IntBytes(item.v[1]) \o CRLF
      [] item.t = "arr" -> <<"*">> \o NatBytes(Len(item.v)) \o CRLF \o EncodeAll(item.v)
      [] item.t = "nilarr" -> <<"*", "-", "1">> \o CRLF
      [] item.t = "nil" -> <<"$", "-", "1">> \o CRLF

\* results of the parsers: a value and the next position, need-more-data, an
\* error, or a panic
Parsed(val, next) == [k |-> "some", val |-> val, next |-> next]
NeedMore == [k |-> "none", val |-> NilString, next |-> 0]
ParseError == [k |-> "err", val |-> NilString, next |-> 0]
ParsePanic == [k |-> "panic", val |-> NilString, next |-> 0]

\* memchr(b'\n', &buf[pos..]): the offset of the first LF, or -1
Memchr(buf, pos) ==
    IF \E i \in (pos + 1)..Len(buf) : buf[i] = "LF"
    THEN (CHOOSE i \in (pos + 1)..Len(buf) :
              buf[i] = "LF" /\ \A j \in (pos + 1)..(i - 1) : buf[j] # "LF") - (pos + 1)
    ELSE 0 - 1

\* base::word: [k, from, to, next]; the window is buf[from..to]
Word(buf, pos) ==
    IF Len(buf) <= pos \/ Memchr(buf, pos) < 0
    THEN [k |-> "none", from |-> 0, to |-> 0, next |-> 0]
    ELSE LET end_pos == pos + Memchr(buf, pos) - 1
         IN  IF end_pos < pos
             THEN [k |-> "panic", from |-> 0, to |-> 0, next |-> 0]
             ELSE [k |-> "some", from |-> pos, to |-> end_pos, next |-> end_pos + 2]

\* BufWindow::as_slice
Window(buf, w) == SubSeq(buf, w.from + 1, w.to)

DigitBytes == {Digits[i] : i \in 1..10}
RECURSIVE DigitsValue(_, _)
DigitsValue(text, acc) ==
    IF text = <<>> THEN acc
    ELSE DigitsValue(Tail(text),
                     10 * acc + (CHOOSE d \in 0..9 : Digits[d + 1] = Head(text)))

\* str::parse::<i64> on the bytes of a word: [ok, int]
ParseIntBytes(text) ==
    LET signed == text # <<>> /\ Head(text) \in {"-", "+"}
        digits == IF signed THEN Tail(text) ELSE text
    IN  IF digits = <<>> \/ \E i \in 1..Len(digits) : digits[i] \notin DigitBytes
        THEN [ok |-> FALSE, int |-> 0]
        ELSE [ok |-> TRUE,
              int |-> IF signed /\ Head(text) = "-" THEN 0 - DigitsValue(digits, 0)
                      ELSE DigitsValue(digits, 0)]

\* base::int: [k, int, next]
ParseIntAt(buf, pos) ==
    LET w == Word(buf, pos)
        n == ParseIntBytes(Window(buf, w))
    IN  IF w.k # "some" THEN [k |-> w.k, int |-> 0, next |-> 0]
        ELSE IF n.ok THEN [k |-> "some", int |-> n.int, next |-> w.next]
        ELSE [k |-> "err", int |-> 0, next |-> 0]

\* data::simple_string
ParseSimpleString(buf, pos) ==
    LET w == Word(buf, pos)
    IN  IF w.k = "some" THEN Parsed(StringValue(Window(buf, w)), w.next)
        ELSE [NeedMore EXCEPT !.k = w.k]

\* data::error
ParseErrorFrame(buf, pos) ==
    LET w == Word(buf, pos)
    IN  IF w.k = "some" THEN Parsed(ErrorValue(Window(buf, w)), w.next)
        ELSE [NeedMore EXCEPT !.k = w.k]

\* data::bulk_string
ParseBulkString(buf, pos) ==
    LET n == ParseIntAt(buf, pos)
        end_pos == n.next + n.int
    IN  IF n.k # "some" THEN [NeedMore EXCEPT !.k = n.k]
        ELSE IF n.int < 0 - 1 THEN ParseError
        ELSE IF n.int = 0 - 1 THEN Parsed(NilString, n.next)
        ELSE IF Len(buf) < end_pos + Len(CRLF) THEN NeedMore
        ELSE Parsed(StringValue(SubSeq(buf, n.next + 1, end_pos)), end_pos + Len(CRLF))

\* data::resp_int
ParseRespInt(buf, pos) ==
    LET n == ParseIntAt(buf, pos)
    IN  IF n.k = "some" THEN Parsed(IntValue(n.int), n.next)
        ELSE [NeedMore EXCEPT !.k = n.k]

RECURSIVE Parse(_, _)
RECURSIVE ParseElems(_, _, _, _)
\* data::array's loop: `left` more elements from current_pos on
ParseElems(buf, current_pos, left, elems) ==
    IF left = 0 THEN Parsed(ArrayValue(elems), current_pos)
    ELSE LET p == Parse(buf, current_pos)
         IN  IF p.k # "some" THEN p
             ELSE ParseElems(buf, p.next, left - 1, Append(elems, p.val))

\* data::array
ParseArray(buf, pos) ==
    LET n == ParseIntAt(buf, pos)
    IN  IF n.k # "some" THEN [NeedMore EXCEPT !.k = n.k]
        ELSE IF n.int < 0 - 1 THEN ParseError
        ELSE IF n.int = 0 - 1 THEN Parsed(NilArray, n.next)
        ELSE ParseElems(buf, n.next, n.int, <<>>)

\* data::parse: buf[pos] is read whenever the buffer is not empty
Parse(buf, pos) ==
    IF buf = <<>> THEN NeedMore
    ELSE IF pos >= Len(buf) THEN ParsePanic
    ELSE CASE buf[pos + 1] = "+" -> ParseSimpleString(buf, pos + 1)
           [] buf[pos + 1] = "-" -> ParseErrorFrame(buf, pos + 1)
           [] buf[pos + 1] = "$" -> ParseBulkString(buf, pos + 1)
           [] buf[pos + 1] = ":" -> ParseRespInt(buf, pos + 1)
           [] buf[pos + 1] = "*" -> ParseArray(buf, pos + 1)
           [] OTHER -> ParseError

RECURSIVE DecodeLoop(_, _)
\* the framed reader calls Decoder::decode until it asks for more bytes:
\* [buf, vals, st]
DecodeLoop(buf, vals) ==
    LET p == IF buf = <<>> THEN NeedMore ELSE Parse(buf, 0)
    IN  CASE p.k = "none" -> [buf |-> buf, vals |-> vals, st |-> "ok"]
          [] p.k = "err" -> [buf |-> buf, vals |-> vals, st |-> "error"]
          [] p.k = "panic" -> [buf |-> buf, vals |-> vals, st |-> "panic"]
          [] p.k = "some" ->
                DecodeLoop(SubSeq(buf, p.next + 1, Len(buf)), Append(vals, p.val))

\* the next n bytes arrive and the reader decodes what it can
Receive(n) ==
    /\ rstate = "ok"
    /\ n \in 1..Len(inflight)
    /\ LET d == DecodeLoop(rbuf \o SubSeq(inflight, 1, n), decoded)
       IN  /\ rbuf' = d.buf
           /\ decoded' = d.vals
           /\ rstate' = d.st
    /\ inflight' = SubSeq(inflight, n + 1, Len(inflight))
    /\ UNCHANGED <<written, conn, shared, lock, bpopKey, hubSeq, poisoned, build,
                   requirepass, clock, disk, tasks, sync, pipe>>

\* the longest payload and the longest array written
MaxBytes == 2
MaxElems == 2
Payloads == {<<>>, <<"a">>, <<"a", "b">>, <<"O", "K">>}
Scalars ==
    {StringValue(b) : b \in Payloads} \cup {SimpleString(b) : b \in Payloads}
        \cup {ErrorValue(b) : b \in Payloads} \cup {IntValue(n) : n \in {0 - 12, 0, 7}}
        \cup {NilString, NilArray}
Tuples(S) == UNION {[1..n -> S] : n \in 0..MaxElems}
FlatArrays == {ArrayValue(a) : a \in Tuples(Scalars)}
NestedArrays ==
    {ArrayValue(<<ArrayValue(a)>>) : a \in Tuples({StringValue(<<"a">>), IntValue(7)})}
        \cup {ArrayValue(<<ArrayValue(<<>>), x>>) : x \in {NilArray, SimpleString(<<"O", "K">>)}}
RespValues == Scalars \cup FlatArrays \cup NestedArrays
\* what a client writes: one value, or two commands back to back
Streams ==
    {<<v>> : v \in RespValues}
        \cup {<<v, w>> : v, w \in {ArrayValue(<<StringValue(<<"a">>)>>), SimpleString(<<"O", "K">>),
                                    StringValue(<<"a", "b">>), NilString}}

InitCodec ==
    /\ InitServer("release", FALSE, [k \in Keys |-> NoValue])
    /\ \E values \in Streams :
          /\ written = values
          /\ inflight = EncodeAll(values)
    /\ rbuf = <<>>
    /\ decoded = <<>>
    /\ rstate = "ok"
    /\ NoDisk
    /\ NoTasks
    /\ NoSync
    /\ NoPipe

NextCodec == \E n \in 1..(2 * MaxBytes + 4) : Receive(n)

SpecCodec == InitCodec /\ [][NextCodec]_vars

\* C23: once all the bytes of the encoded values have arrived, the decoder has
\* returned the values that were encoded
C23_RoundTrip == inflight = <<>> => (rstate = "ok" /\ decoded = written)

\* the number of bytes of the first i values written
BytesUpTo(i) == Len(EncodeAll(SubSeq(written, 1, i)))
\* the number of bytes that have arrived
Arrived == BytesUpTo(Len(written)) - Len(inflight)
\* the number of frames that have arrived whole
WholeFrames == Cardinality({i \in 1..Len(written) : BytesUpTo(i) <= Arrived})

\* C24: however the bytes are split across reads, the decoder has returned one
\* value for each frame that has arrived whole, the value it returns for that
\* frame alone, and its buffer holds exactly the bytes that arrived after them;
\* it reports neither an error nor a failure on a frame that is not yet whole
C24_Framing ==
    /\ rstate = "ok"
    /\ Len(decoded) = WholeFrames
    /\ rbuf = SubSeq(EncodeAll(written), BytesUpTo(WholeFrames) + 1, Arrived)
    /\ \A i \in 1..Len(decoded) : decoded[i] = Parse(Encode(written[i]), 0).val

\* ------------------------------------------------------------ RDB snapshots
\* The file is a sequence of tokens: a flag byte, an encoded size, a
\* little-endian u64, an encoded integer, or a length-prefixed string. Every
\* size of the model is below 0x40 and takes the one-byte form of write_size.
RdbFlag(f) == [k |-> "flag", v |-> f]
RdbU64(n) == [k |-> "u64", v |-> n]
WriteSize(len) == <<[k |-> "size", v |-> len]>>
WriteString(val) == <<[k |-> "string", v |-> val]>>
WriteStringInt(val) == <<[k |-> "int", v |-> val]>>

\* SystemTime::now() since UNIX_EPOCH, in milliseconds: the epoch of the
\* model is the first start of the server
UnixTimeMillis == clock

WriteHeader == <<RdbFlag("REDIS"), RdbFlag("0011")>>

WriteMetadata ==
    <<RdbFlag("FA")>> \o WriteString("tinikeyval-ver") \o WriteString("version")
        \o <<RdbFlag("FA")>> \o WriteString("ctime") \o WriteStringInt(UnixTimeMillis)

\* the members of a set in the order its iterator yields them
RECURSIVE SetIter(_)
SetIter(set) ==
    IF set = {} THEN <<>>
    ELSE LET m == CHOOSE x \in set : TRUE IN <<m>> \o SetIter(set \ {m})

RECURSIVE WriteStrings(_)
WriteStrings(members) ==
    IF members = <<>> THEN <<>>
    ELSE WriteString(Head(members)) \o WriteStrings(Tail(members))

\* RedisObject::is_persist_supported
IsPersistSupported(o) == o.t \in {"string", "list", "set"}

\* write_database, one key: the expiry, the type flag, the key, the value
WriteKey(key, o) ==
    LET expiry ==
            IF o.ttl = NoTtl THEN <<>>
            ELSE LET expiration == o.created + o.ttl
                     expires_in_millis == IF expiration > clock THEN expiration - clock ELSE 0
                 IN  <<RdbFlag("FC"), RdbU64(UnixTimeMillis + expires_in_millis)>>
        type_flag == CASE o.t = "string" -> "00" [] o.t = "list" -> "01" [] OTHER -> "02"
        value == CASE o.t = "string" -> WriteString(o.v[1])
                   [] o.t = "list" -> WriteSize(Len(o.v)) \o WriteStrings(o.v)
                   [] OTHER -> WriteSize(Cardinality(o.v)) \o WriteStrings(SetIter(o.v))
    IN  expiry \o <<RdbFlag(type_flag)>> \o WriteString(key) \o value

KeyOrder == <<"K", "J">>

RECURSIVE WriteKeys(_, _)
WriteKeys(st, keys) ==
    IF keys = <<>> THEN <<>>
    ELSE WriteKey(Head(keys), st[Head(keys)]) \o WriteKeys(st, Tail(keys))

\* RdbWriter::dump over the given keys: [st, bytes]; st is "ok", "err" (the
\* size verification failed) or "panic" (todo!: a type that is not supported)
Dump(st, keys) ==
    LET db_size == Cardinality({i \in 1..Len(keys) : IsPersistSupported(st[keys[i]])})
        expire_size == Cardinality({i \in 1..Len(keys) :
                           IsPersistSupported(st[keys[i]]) /\ st[keys[i]].ttl # NoTtl})
        expire_size_check == Cardinality({i \in 1..Len(keys) : st[keys[i]].ttl # NoTtl})
    IN  IF \E i \in 1..Len(keys) : ~IsPersistSupported(st[keys[i]])
        THEN [st |-> "panic", bytes |-> <<>>]
        ELSE IF db_size # Len(keys) \/ expire_size # expire_size_check
        THEN [st |-> "err", bytes |-> <<>>]
        ELSE [st |-> "ok",
              bytes |-> WriteHeader \o WriteMetadata
                  \o <<RdbFlag("FE")>> \o WriteSize(0)
                  \o <<RdbFlag("FB")>> \o WriteSize(db_size) \o WriteSize(expire_size)
                  \o WriteKeys(st, keys)
                  \o <<RdbFlag("FF"), RdbU64(Len(keys))>>]

\* save_rdb_file: lock the storage, dump the current keys to a temporary
\* file and rename it to the file path
CurrentKeys(st) == SelectSeq(KeyOrder, LAMBDA key : st[key].t # "none" /\ IsCurrent(st[key]))

SaveRdb ==
    /\ lock = FreeLock
    /\ LET d == Dump(store, CurrentKeys(store))
           saved == ~poisoned /\ d.st = "ok"
       IN  /\ poisoned' = (poisoned \/ d.st = "panic")
           /\ file' = IF saved THEN d.bytes ELSE file
           /\ snapshot' = IF saved THEN store ELSE snapshot
    /\ UNCHANGED <<conn, shared, lock, bpopKey, hubSeq, build, requirepass, clock,
                   wire, boots, sync, pipe>>

\* a snapshot is saved
SaveRdbFile == ~poisoned /\ SaveRdb /\ UNCHANGED tasks

\* RdbParser::parse, the key entries of the database: a sequence of
\* [key, type, value, expires_at]; the tokens before the first key entry and
\* the end marker are skipped
NoExpiry == 0 - 1
IsFlag(tok, f) == tok.k = "flag" /\ tok.v = f

RECURSIVE ParseKeys(_, _)
ParseKeys(toks, pos) ==
    IF pos > Len(toks) \/ IsFlag(toks[pos], "FF") THEN <<>>
    ELSE LET timed == IsFlag(toks[pos], "FC")
             at == IF timed THEN pos + 2 ELSE pos
             expires_at == IF timed THEN toks[pos + 1].v ELSE NoExpiry
             type == toks[at].v
             key == toks[at + 1].v
             count == IF type = "00" THEN 1 ELSE toks[at + 2].v
             first == IF type = "00" THEN at + 2 ELSE at + 3
             value == [i \in 1..count |-> toks[first + i - 1].v]
         IN  <<[key |-> key, type |-> type, value |-> value, expires_at |-> expires_at]>>
                 \o ParseKeys(toks, first + count)

\* the position of the first key entry: after 0xFB and the two sizes
FirstKey(toks) == (CHOOSE i \in 1..Len(toks) : IsFlag(toks[i], "FB")) + 3

RdbParse(toks) == ParseKeys(toks, FirstKey(toks))

\* load_rdb_file, the loop over the parsed keys: keys that have expired are
\* skipped and every value is stored as RedisDataType::String
RECURSIVE LoadKeys(_, _)
LoadKeys(st, keys) ==
    IF keys = <<>> THEN st
    ELSE LET e == Head(keys)
         IN  IF e.expires_at # NoExpiry /\ UnixTimeMillis > e.expires_at
             THEN LoadKeys(st, Tail(keys))
             ELSE LET ttl_millis == IF e.expires_at # NoExpiry
                                    THEN e.expires_at - UnixTimeMillis ELSE NoTtl
                  IN  LoadKeys([st EXCEPT ![e.key] =
                                    RedisObject("string", e.value, clock, ttl_millis)],
                               Tail(keys))

\* load_rdb_file; start_server falls back to the default storage when there
\* is no file
LoadRdbFile ==
    IF file = <<>> THEN [k \in Keys |-> NoValue]
    ELSE LoadKeys([k \in Keys |-> NoValue], RdbParse(file))

MaxBoots == 1

\* the server process ends and start_server runs again on the same file
Restart ==
    /\ boots < MaxBoots
    /\ boots' = boots + 1
    /\ store' = LoadRdbFile
    /\ lock' = FreeLock
    /\ pc' = [c \in Conns |-> "ready"]
    /\ alive' = [c \in Conns |-> TRUE]
    /\ authed' = [c \in Conns |-> ~requirepass]
    /\ nrecv' = [c \in Conns |-> 0]
    /\ cur' = [c \in Conns |-> NoCur]
    /\ wait' = [c \in Conns |-> NoWait]
    /\ out' = [c \in Conns |-> <<>>]
    /\ txq' = [c \in Conns |-> <<>>]
    /\ execRes' = [c \in Conns |-> <<>>]
    /\ sid' = [c \in Conns |-> 0]
    /\ bpopQ' = <<>>
    /\ bpopChan' = <<>>
    /\ bpopKey' = NoKey
    /\ xreadQ' = <<>>
    /\ xreadChan' = <<>>
    /\ clients' = <<>>
    /\ subRx' = <<>>
    /\ hubChan' = <<>>
    /\ hubSeq' = 0
    /\ poisoned' = FALSE
    /\ shutdown' = FALSE
    /\ task' = [name \in TaskNames |-> "loop"]
    /\ changes' = 0
    /\ lastSave' = clock
    /\ finalSaves' = 0
    /\ UNCHANGED <<nops, build, requirepass, clock, wire, file, snapshot, sync, pipe>>

RdbCmds ==
    {SetPx("K", "v", 1), Set("J", "w"), PushCmd("K", <<"x", "y">>, "Right"),
     PushCmd("J", <<"y">>, "Left"), SAddCmd("J", <<"bar", "foo">>),
     ZAddCmd("J", <<<<1, "bar">>>>), DelCmd(<<"J", "K">>)}

InitRdb == InitWith("release", FALSE)

NextRdb ==
    \/ \E c \in Conns, cmd \in RdbCmds : ConnExecute(c, cmd)
    \/ Tick
    \/ SaveRdbFile
    \/ Restart

SpecRdb == InitRdb /\ [][NextRdb]_vars

\* the entry that loading a saved entry o at the present time should give
SameEntry(o, loaded) ==
    IF o.t # "none" /\ IsCurrent(o)
    THEN /\ loaded.t = o.t
         /\ loaded.v = o.v
         /\ IF o.ttl = NoTtl THEN loaded.ttl = NoTtl
            ELSE loaded.ttl # NoTtl /\ loaded.created + loaded.ttl = o.created + o.ttl
    ELSE loaded.t = "none"

\* C25: when the server starts on the file of a save, the store it loads has
\* the live keys of the saved store (strings, lists and sets), with the same
\* types, values and expiration instants
C25_RdbRoundTrip ==
    [][(boots' # boots /\ file # <<>>
          /\ \A key \in Keys : snapshot[key].t \in {"none", "string", "list", "set"})
       => \A key \in Keys : SameEntry(snapshot[key], store'[key])]_vars

\* ---------------------------------------------------------------- shutdown
\* Config.persist: (seconds, changes), in the clock's unit
PersistSecs == 0
PersistChanges == 1
MaxChanges == 2

\* Notifiers::change_incr, called by a command that changed the data
ChangeIncr ==
    /\ changes < MaxChanges
    /\ changes' = changes + 1
    /\ UNCHANGED <<conn, shared, lock, bpopKey, hubSeq, poisoned, build, requirepass,
                   clock, wire, disk, sync, pipe, shutdown, task, lastSave, finalSaves>>

\* the ctrlc handler: shutdown_tx.send(true)
Shutdown ==
    /\ ~shutdown
    /\ shutdown' = TRUE
    /\ UNCHANGED <<conn, shared, lock, bpopKey, hubSeq, poisoned, build, requirepass,
                   clock, wire, disk, sync, pipe, task, changes, lastSave, finalSaves>>

\* a task whose select takes `shutdown.changed() => break`
Breaks(name) == shutdown /\ task[name] = "loop"

\* bpop_task, xread_task, pubsub_task and cleanup_task return after the loop
TaskExit(name) ==
    /\ name # "persist"
    /\ Breaks(name)
    /\ name = "bpop" => bpopKey = NoKey
    /\ task' = [task EXCEPT ![name] = "done"]
    /\ UNCHANGED <<conn, shared, lock, bpopKey, hubSeq, poisoned, build, requirepass,
                   clock, wire, disk, sync, pipe, shutdown, changes, lastSave, finalSaves>>

\* persist_task at a tick of its interval with enough changes and time since
\* the last save: reset the counter and last_save, then save
PersistTick ==
    /\ task["persist"] = "loop"
    /\ changes >= PersistChanges
    /\ clock - lastSave > PersistSecs
    /\ changes' = 0
    /\ lastSave' = clock
    /\ task' = [task EXCEPT !["persist"] = "saving"]
    /\ UNCHANGED <<conn, shared, lock, bpopKey, hubSeq, poisoned, build, requirepass,
                   clock, wire, disk, sync, pipe, shutdown, finalSaves>>

\* persist_task: the save of the loop, on the blocking pool
PersistSave ==
    /\ task["persist"] = "saving"
    /\ SaveRdb
    /\ task' = [task EXCEPT !["persist"] = "loop"]
    /\ UNCHANGED <<shutdown, changes, lastSave, finalSaves>>

\* a persist_task that saves after its loop only when the counter asks for it
PersistExitIfChanged ==
    /\ Breaks("persist")
    /\ task' = [task EXCEPT !["persist"] =
                   IF changes >= PersistChanges THEN "final" ELSE "done"]
    /\ UNCHANGED <<conn, shared, lock, bpopKey, hubSeq, poisoned, build, requirepass,
                   clock, wire, disk, sync, pipe, shutdown, changes, lastSave, finalSaves>>
\* persist_task: `shutdown.changed() => break`
PersistExit ==
    /\ Breaks("persist")
    /\ task' = [task EXCEPT !["persist"] = "final"]
    /\ UNCHANGED <<conn, shared, lock, bpopKey, hubSeq, poisoned, build, requirepass,
                   clock, wire, disk, sync, pipe, shutdown, changes, lastSave, finalSaves>>

\* persist_task: the final save, then the task returns
PersistFinal ==
    /\ task["persist"] = "final"
    /\ SaveRdb
    /\ finalSaves' = finalSaves + 1
    /\ task' = [task EXCEPT !["persist"] = "done"]
    /\ UNCHANGED <<shutdown, changes, lastSave>>

ShutdownCmds ==
    {PushCmd("K", <<"x">>, "Right"), BPopCmd("K", "Left", 0), ZAddCmd("J", <<<<1, "bar">>>>)}

\* the commands sent before and during a shutdown
MaxShutdownCmds == 2

InitShutdown == InitWith("release", FALSE)

NextShutdown ==
    \/ \E c \in Conns, cmd \in ShutdownCmds : nops < MaxShutdownCmds /\ ConnExecute(c, cmd)
    \/ \E c \in Conns : ConnWake(c)
    \/ BPopRecv
    \/ BPopIter
    \/ Tick
    \/ ChangeIncr
    \/ Shutdown
    \/ \E name \in TaskNames : TaskExit(name)
    \/ PersistTick
    \/ PersistSave
    \/ PersistExit
    \/ PersistFinal

SpecShutdown == InitShutdown /\ [][NextShutdown]_vars

\* the runtime schedules every task that can run: a ready branch of a select
\* is taken, and a save on the blocking pool completes
FairShutdown ==
    /\ WF_vars(BPopRecv)
    /\ WF_vars(BPopIter)
    /\ \A name \in TaskNames : WF_vars(TaskExit(name))
    /\ WF_vars(PersistSave)
    /\ WF_vars(PersistExit)
    /\ WF_vars(PersistFinal)
FairSpecShutdown == SpecShutdown /\ FairShutdown

AllDone == \A name \in TaskNames : task[name] = "done"

\* C26: once the shutdown watch is signalled every background task leaves
\* its loop and ends, and persist_task ends having made exactly one save
\* after its loop, whatever the change counter and the time since last_save
C26_ShutdownEndsTasks ==
    /\ shutdown ~> AllDone
    /\ [](task["persist"] = "done" => finalSaves = 1)
    /\ [](task["persist"] # "done" => finalSaves = 0)

\* the tasks have ended after a signal that found too few changes for a
\* save of the loop and a waiter queued
C26_Witness ==
    /\ AllDone
    /\ finalSaves = 1
    /\ changes < PersistChanges
    /\ bpopQ # <<>>

\* ----------------------------------------------- clients that go away
DropCmds ==
    {PushCmd("K", <<"x">>, "Right"), PushCmd("K", <<"y">>, "Left"), PopCmd("K", "Left", 1),
     BPopCmd("K", "Left", 0), BPopCmd("K", "Right", 100)}

InitDrop == InitWith("release", FALSE)

NextDrop ==
    \/ \E c \in Conns, cmd \in DropCmds : ConnExecute(c, cmd)
    \/ \E c \in Conns : ConnWake(c)
    \/ \E c \in Conns : ConnTimeout(c)
    \/ \E c \in Conns : Disconnect(c)
    \/ \E c \in Conns : ConnEof(c)
    \/ BPopRecv
    \/ BPopIter
    \/ CleanupDisconnected

SpecDrop == InitDrop /\ [][NextDrop]_vars

Elements == {"x", "y"}
Count(seq, e) == Cardinality({i \in 1..Len(seq) : seq[i] = e})

\* the copies of element e in the lists
InLists(e) ==
    LET n == [key \in Keys |->
                 IF store[key].t = "list" THEN Count(store[key].v, e) ELSE 0]
    IN  n["K"] + n["J"]
\* the connections whose oneshot holds element e, sent by the bpop task
InFlight(e) ==
    {c \in Conns : /\ wait[c].st = "ready"
                   /\ cur[c].cmd.op = "BPOP"
                   /\ wait[c].val = <<e>>}
\* the frames on c's socket that return element e to the client
Returned(c, e) ==
    {i \in 1..Len(out[c]) :
        LET f == out[c][i]
        IN  \/ f.req.op = "POP" /\ f.val = StringValue(e)
            \/ f.req.op = "BPOP" /\ f.val = ArrayValue(<<f.req.key, e>>)}
\* the copies of e held by the lists, the oneshots and the clients
Held(e) ==
    InLists(e) + Cardinality(InFlight(e))
        + Cardinality({<<c, i>> \in Conns \X (1..MaxCmds) : i \in Returned(c, e)})

\* C27: a step changes the number of copies of an element that are in a
\* list, on their way to a waiter or returned to a client only when it is a
\* push, and then by the copies pushed: nothing is lost and nothing is
\* duplicated, also for waiters that timed out or whose connection dropped
C27_NoElementLost ==
    [][\A e \in Elements :
          \/ Held(e)' = Held(e)
          \/ \E c \in Conns, cmd \in DropCmds :
                /\ cmd.op = "PUSH"
                /\ ConnExecute(c, cmd)
                /\ Held(e)' = Held(e) + Count(cmd.elems, e)]_vars

\* the runtime schedules the tasks and the awaiting connections, timers fire
\* and the sweep comes round
FairDrop ==
    /\ WF_vars(BPopRecv)
    /\ WF_vars(BPopIter)
    /\ WF_vars(CleanupDisconnected)
    /\ \A c \in Conns : WF_vars(ConnWake(c)) /\ WF_vars(ConnTimeout(c))
FairSpecDrop == SpecDrop /\ FairDrop

\* the client behind a waiter of c has gone away: its timeout fired, or its
\* socket closed while c was blocked
Gone(c) ==
    \E i \in 1..Len(bpopQ) :
        bpopQ[i].conn = c /\ (bpopQ[i].closed \/ (~alive[c] /\ pc[c] = "blocked"))

\* C28: a waiter whose client has gone away leaves the queue: it does not
\* stay queued forever
C28_GoneWaiterRemoved == \A c \in Conns : Gone(c) ~> ~Gone(c)

\* ------------------------------------------------ subscribers that go away
\* the runtime schedules the hub, the connections in subscribe mode and the
\* connections awaiting a reply, and the sweep comes round
FairPubSub ==
    /\ WF_vars(HubStep)
    /\ WF_vars(CleanupDisconnected)
    /\ \A c \in Conns : WF_vars(SubDeliver(c)) /\ WF_vars(ConnWake(c)) /\ WF_vars(ConnEof(c))
FairSpecPubSub == SpecPubSub /\ FairPubSub

\* connection c is in subscribe mode and its client has closed the socket
SubscriberGone(c) == pc[c] = "sub" /\ ~alive[c]

\* C29: a connection in subscribe mode whose client has disconnected leaves
\* subscribe mode, and its client is then swept from the hub's map
C29_SubscriberLeaves ==
    \A c \in Conns :
        SubscriberGone(c) ~> (pc[c] # "sub" /\ sid[c] # 0 /\ ~clients[sid[c]].present)

\* ------------------------------------------- subscriptions and delivery
\* the channels of client id once the hub has handled the given events
RECURSIVE ChannelsAfter(_, _, _)
ChannelsAfter(chs, events, id) ==
    IF events = <<>> THEN chs
    ELSE LET e == Head(events)
             named == {e.channels[i] : i \in 1..Len(e.channels)}
             now == CASE e.id = id /\ e.ev = "Subscribe" -> chs \cup named
                      [] e.id = id /\ e.ev = "Unsubscribe" ->
                            IF e.channels = <<>> THEN {} ELSE chs \ named
                      [] OTHER -> chs
         IN  ChannelsAfter(now, Tail(events), id)

\* the clients that the Message event at position j of the hub's channel is
\* for: those subscribed to its channel by the commands submitted before it
WillReach(q, cl, j) ==
    {id \in 1..Len(cl) :
        q[j].channel \in ChannelsAfter(cl[id].channels, SubSeq(q, 1, j - 1), id)}

\* the clients with an open receiver after the step
OpenAfter == {id \in 1..Len(clients') : clients'[id].present /\ ~clients'[id].closed}

\* C30: the clients a queued PUBLISH is for are fixed when its command is
\* executed, by the SUBSCRIBE and UNSUBSCRIBE commands submitted before it:
\* no later step changes them, and when the hub handles the event it sends
\* the message to exactly those of them whose receiver is open
C30_NoSubscribeRace ==
    [][\A j \in 1..Len(hubChan) :
          hubChan[j].ev = "Message" =>
              LET k == IF Len(hubChan') < Len(hubChan) THEN j - 1 ELSE j
                  for == WillReach(hubChan, clients, j)
              IN  IF k = 0
                  THEN \A id \in 1..Len(clients) :
                          Len(subRx'[id]) = Len(subRx[id])
                              + (IF id \in for /\ clients[id].present /\ ~clients[id].closed
                                 THEN 1 ELSE 0)
                  ELSE /\ k <= Len(hubChan')
                       /\ hubChan'[k] = hubChan[j]
                       /\ WillReach(hubChan', clients', k) \cap OpenAfter = for \cap OpenAfter]_vars

\* an UNSUBSCRIBE and a later PUBLISH on the same channel both wait for the
\* hub while the client is still in the channel's set
C30_Witness ==
    \E i, j \in 1..Len(hubChan) :
        /\ i < j
        /\ hubChan[i].ev = "Unsubscribe"
        /\ hubChan[j].ev = "Message"
        /\ hubChan[j].channel \in clients[hubChan[i].id].channels
        /\ hubChan[i].id \notin WillReach(hubChan, clients, j)

\* ------------------------------------------------------------ lock protocol
\* The lock and unlock operations and the await points of every thread, in
\* the order the code performs them. What a command does to the data is left
\* out here: whether it goes to a queue is a choice.
LockFrame ==
    UNCHANGED <<conn, shared, bpopKey, hubSeq, poisoned, build, requirepass, clock,
                wire, disk, tasks, pipe>>

\* process_incoming: cxn.next() yields a frame and process_command goes for
\* the storage lock
LkNext(c) ==
    /\ cstep[c].at = "next"
    /\ cstep' = [cstep EXCEPT ![c] = Step("lock", "-", 0, "command")]
    /\ UNCHANGED <<lock, qlock, tstep>>
    /\ LockFrame

\* storage.lock() in process_command, or before the loop of the EXEC batch
\* over the commands queued since MULTI
LkStorage(c) ==
    /\ cstep[c].at = "lock"
    /\ lock = FreeLock
    /\ lock' = ConnLock(c)
    /\ \E n \in 0..MaxQueued :
          /\ cstep[c].mode = "command" => n = 1
          /\ cstep' = [cstep EXCEPT ![c].at = "execute", ![c].left = n]
    /\ UNCHANGED <<qlock, tstep>>
    /\ LockFrame

\* command.execute of a command that goes to no queue
LkExecute(c) ==
    /\ cstep[c].at = "execute"
    /\ cstep[c].left > 0
    /\ cstep' = [cstep EXCEPT ![c].left = @ - 1]
    /\ UNCHANGED <<lock, qlock, tstep>>
    /\ LockFrame

\* command.execute reaches Queues::bpop_push, xread_push or pubsub_add
LkQueueWant(c, q) ==
    /\ cstep[c].at = "execute"
    /\ cstep[c].left > 0
    /\ cstep' = [cstep EXCEPT ![c].at = "queue_lock", ![c].q = q]
    /\ UNCHANGED <<lock, qlock, tstep>>
    /\ LockFrame

\* Queues::bpop_lock / xread_lock / pubsub_lock
LkQueue(c) ==
    /\ cstep[c].at = "queue_lock"
    /\ qlock[cstep[c].q] = FreeLock
    /\ qlock' = [qlock EXCEPT ![cstep[c].q] = ConnLock(c)]
    /\ cstep' = [cstep EXCEPT ![c].at = "queue"]
    /\ UNCHANGED <<lock, tstep>>
    /\ LockFrame

\* the guard of the queue is dropped at the end of the statement
LkQueueUnlock(c) ==
    /\ cstep[c].at = "queue"
    /\ qlock' = [qlock EXCEPT ![cstep[c].q] = FreeLock]
    /\ cstep' = [cstep EXCEPT ![c].at = "execute", ![c].left = @ - 1, ![c].q = "-"]
    /\ UNCHANGED <<lock, tstep>>
    /\ LockFrame

\* the storage guard is dropped at the end of the block; the task goes on
\* to the awaits its response asks for ("await"): the feed or send of a
\* value, rx.await and then the write for a Block, subscribe_mode for
\* Subscribed, the send of OK for Transaction
LkUnlock(c) ==
    /\ cstep[c].at = "execute"
    /\ cstep[c].left = 0
    /\ lock' = FreeLock
    /\ cstep' = [cstep EXCEPT ![c] = Step("await", "-", 0, cstep[c].mode)]
    /\ UNCHANGED <<qlock, tstep>>
    /\ LockFrame

\* the awaits of the response complete: the loop goes back to cxn.next(),
\* or, after the OK of a MULTI, on to process_transaction
LkAwait(c, multi) ==
    /\ cstep[c].at = "await"
    /\ multi => cstep[c].mode = "command"
    /\ cstep' = [cstep EXCEPT ![c] =
                    Step(IF multi THEN "transaction" ELSE "next", "-", 0, "-")]
    /\ UNCHANGED <<lock, qlock, tstep>>
    /\ LockFrame

\* process_transaction returns: None, or the commands queued before EXEC
LkTransaction(c, some) ==
    /\ cstep[c].at = "transaction"
    /\ cstep' = [cstep EXCEPT ![c] =
                    IF some THEN Step("lock", "-", 0, "batch") ELSE Step("next", "-", 0, "-")]
    /\ UNCHANGED <<lock, qlock, tstep>>
    /\ LockFrame

\* bpop_task, xread_task, pubsub_task receive an event, cleanup_task's
\* interval ticks
TaskWake(t) ==
    /\ t \in {"bpop", "xread", "pubsub", "cleanup"}
    /\ tstep[t].at \in {"recv", "tick"}
    /\ tstep' = [tstep EXCEPT ![t] =
                    IF t = "pubsub" THEN Step("queue_lock", "pubsub", 0, "-")
                    ELSE Step("lock", "-", 0, "-")]
    /\ UNCHANGED <<lock, qlock, cstep>>
    /\ LockFrame

\* storage.lock() in bpop_task, xread_task, cleanup_task and save_rdb_file
TaskStorage(t) ==
    /\ tstep[t].at = "lock"
    /\ lock = FreeLock
    /\ lock' = TaskLock(t)
    /\ tstep' = [tstep EXCEPT ![t] =
                    CASE t = "cleanup" -> Step("sweep", "-", 0, "-")
                      [] t = "save" -> Step("dump", "-", 0, "-")
                      [] OTHER -> Step("queue_lock", t, 0, "-")]
    /\ UNCHANGED <<qlock, cstep>>
    /\ LockFrame

\* queues.bpop_lock() / xread_lock() / pubsub_lock() in a background task
TaskQueue(t) ==
    /\ tstep[t].at = "queue_lock"
    /\ qlock[tstep[t].q] = FreeLock
    /\ qlock' = [qlock EXCEPT ![tstep[t].q] = TaskLock(t)]
    /\ tstep' = [tstep EXCEPT ![t].at = "queue"]
    /\ UNCHANGED <<lock, cstep>>
    /\ LockFrame

\* cleanup_disconnected goes through the queues in this order
NextQueue(q) == CASE q = "bpop" -> "xread" [] q = "xread" -> "pubsub" [] OTHER -> "-"

\* a cleanup_task that keeps the guard of a queue and goes for the storage
TaskQueueThenStorage(t) ==
    /\ tstep[t].at = "queue"
    /\ IF t = "cleanup"
       THEN /\ qlock' = qlock
            /\ tstep' = [tstep EXCEPT ![t].at = "lock"]
       ELSE /\ qlock' = [qlock EXCEPT ![tstep[t].q] = FreeLock]
            /\ tstep' = [tstep EXCEPT ![t] =
                            IF t = "pubsub" THEN Step("recv", "-", 0, "-")
                            ELSE Step("unlock", "-", 0, "-")]
    /\ UNCHANGED <<lock, cstep>>
    /\ LockFrame
\* the guard of the queue is dropped: at the end of the loop body in
\* bpop_task, xread_task and pubsub_task, at the end of each statement of
\* cleanup_disconnected
TaskQueueUnlock(t) ==
    /\ tstep[t].at = "queue"
    /\ qlock' = [qlock EXCEPT ![tstep[t].q] = FreeLock]
    /\ tstep' = [tstep EXCEPT ![t] =
                    CASE t = "pubsub" -> Step("recv", "-", 0, "-")
                      [] t = "cleanup" ->
                            IF NextQueue(tstep[t].q) = "-" THEN Step("tick", "-", 0, "-")
                            ELSE Step("queue_lock", NextQueue(tstep[t].q), 0, "-")
                      [] OTHER -> Step("unlock", "-", 0, "-")]
    /\ UNCHANGED <<lock, cstep>>
    /\ LockFrame

\* a task whose guard of the storage outlives the loop body
TaskKeepLocked(t) ==
    /\ tstep[t].at \in {"unlock", "sweep", "dump"}
    /\ lock' = IF t = "bpop" THEN lock ELSE FreeLock
    /\ tstep' = [tstep EXCEPT ![t] =
                    CASE t = "cleanup" -> Step("queue_lock", "bpop", 0, "-")
                      [] t = "save" -> Step("rename", "-", 0, "-")
                      [] OTHER -> Step("recv", "-", 0, "-")]
    /\ UNCHANGED <<qlock, cstep>>
    /\ LockFrame
\* the guard of the storage is dropped: at the end of the loop body in
\* bpop_task and xread_task, at the end of the statement in cleanup_task, at
\* the end of the block in save_rdb_file
TaskUnlock(t) ==
    /\ tstep[t].at \in {"unlock", "sweep", "dump"}
    /\ lock' = FreeLock
    /\ tstep' = [tstep EXCEPT ![t] =
                    CASE t = "cleanup" -> Step("queue_lock", "bpop", 0, "-")
                      [] t = "save" -> Step("rename", "-", 0, "-")
                      [] OTHER -> Step("recv", "-", 0, "-")]
    /\ UNCHANGED <<qlock, cstep>>
    /\ LockFrame

\* persist_task: spawn_blocking(save_rdb_file).await
PersistSpawn ==
    /\ tstep["persist"].at = "tick"
    /\ tstep["save"].at = "idle"
    /\ tstep' = [tstep EXCEPT !["persist"].at = "join", !["save"].at = "lock"]
    /\ UNCHANGED <<lock, qlock, cstep>>
    /\ LockFrame

\* save_rdb_file: temp_file.persist, the closure returns and the join ends
PersistJoin ==
    /\ tstep["save"].at = "rename"
    /\ tstep' = [tstep EXCEPT !["persist"].at = "tick", !["save"].at = "idle"]
    /\ UNCHANGED <<lock, qlock, cstep>>
    /\ LockFrame

InitLocks == InitWith("release", FALSE)

NextLocks ==
    \/ \E c \in Conns : LkNext(c)
    \/ \E c \in Conns : LkStorage(c)
    \/ \E c \in Conns : LkExecute(c)
    \/ \E c \in Conns, q \in QueueNames : LkQueueWant(c, q)
    \/ \E c \in Conns : LkQueue(c)
    \/ \E c \in Conns : LkQueueUnlock(c)
    \/ \E c \in Conns : LkUnlock(c)
    \/ \E c \in Conns, multi \in BOOLEAN : LkAwait(c, multi)
    \/ \E c \in Conns, some \in BOOLEAN : LkTransaction(c, some)
    \/ \E t \in Threads : TaskWake(t)
    \/ \E t \in Threads : TaskStorage(t)
    \/ \E t \in Threads : TaskQueue(t)
    \/ \E t \in Threads : TaskQueueUnlock(t)
    \/ \E t \in Threads : TaskUnlock(t)
    \/ PersistSpawn
    \/ PersistJoin

SpecLocks == InitLocks /\ [][NextLocks]_vars

\* the positions at which a task is suspended at an await
ConnAwaits == {"next", "await", "transaction"}
TaskAwaits == {"recv", "tick", "join"}

\* the locks a holder has
HeldBy(id) ==
    (IF lock = id THEN {"storage"} ELSE {}) \cup {q \in QueueNames : qlock[q] = id}

\* C31: a task that is suspended at an await holds neither the storage lock
\* nor the lock of a queue
C31_NoLockAcrossAwait ==
    /\ \A c \in Conns : cstep[c].at \in ConnAwaits => HeldBy(ConnLock(c)) = {}
    /\ \A t \in TaskNames : tstep[t].at \in TaskAwaits => HeldBy(TaskLock(t)) = {}

\* the EXEC batch of a connection holds the storage lock and the lock of
\* the bpop queue and the hub holds the lock of the client map, while
\* another connection awaits its reply and persist_task awaits a save that
\* is blocked on the storage lock
C31_Witness ==
    \E c, d \in Conns :
        /\ cstep[c].mode = "batch"
        /\ HeldBy(ConnLock(c)) = {"storage", "bpop"}
        /\ HeldBy(TaskLock("pubsub")) = {"pubsub"}
        /\ cstep[d].at = "await"
        /\ tstep["persist"].at = "join"
        /\ tstep["save"].at = "lock"

\* the lock a thread is blocked on, "-" when it is not blocked
Wants(s) ==
    CASE s.at = "lock" -> "storage"
      [] s.at = "queue_lock" -> s.q
      [] OTHER -> "-"
HolderOf(l) == IF l = "storage" THEN lock ELSE qlock[l]
\* the blocked threads: [id, l]
Blocked ==
    {[id |-> ConnLock(c), l |-> Wants(cstep[c])] : c \in {d \in Conns : Wants(cstep[d]) # "-"}}
        \cup {[id |-> TaskLock(t), l |-> Wants(tstep[t])] :
                 t \in {u \in Threads : Wants(tstep[u]) # "-"}}

\* C32: the storage lock is taken by a thread that holds no lock, the lock
\* of a queue by a thread that holds no other queue's lock, and no two
\* threads are each blocked on a lock that the other holds
C32_LockOrder ==
    /\ [][/\ (lock' # lock /\ lock' # FreeLock) =>
                \A q \in QueueNames : qlock[q] # lock'
          /\ \A q \in QueueNames :
                (qlock'[q] # qlock[q] /\ qlock'[q] # FreeLock) =>
                    \A r \in QueueNames \ {q} : qlock[r] # qlock'[q]]_vars
    /\ [](\A a, b \in Blocked : ~(HolderOf(a.l) = b.id /\ HolderOf(b.l) = a.id))

\* bpop_task holds the storage lock and is blocked on the bpop queue, whose
\* lock cleanup_task holds, while a connection is blocked on the storage
C32_Witness ==
    /\ HeldBy(TaskLock("bpop")) = {"storage"}
    /\ tstep["bpop"].at = "queue_lock"
    /\ qlock["bpop"] = TaskLock("cleanup")
    /\ \E c \in Conns : cstep[c].at = "lock"

\* --------------------------------------------------------------- pipelining
\* how many frames one segment of a client carries
MaxPipe == 2

PipeCmds ==
    {PushCmd("K", <<"x">>, "Right"), BPopCmd("K", "Left", 0), BPopCmd("K", "Left", 100)}

\* the frames waiting in the read buffers
Buffered == {<<c, i>> \in Conns \X (1..MaxPipe) : i <= Len(inbuf[c].frames)}

\* cxn.read_buffer().len() > 0: a whole frame or part of one is buffered
ReadBufferLeft(b) == b.frames # <<>> \/ b.partial

\* cxn.next() finds no whole frame in its buffer and reads the socket: a
\* segment of whole frames, with or without the start of another frame; the
\* first frame completes the partial one if there is one
PipeFill(c, frames, partial) ==
    /\ pc[c] = "ready"
    /\ alive[c]
    /\ inbuf[c].frames = <<>>
    /\ frames # <<>> \/ (partial /\ ~inbuf[c].partial)
    /\ nops + Cardinality(Buffered) + Len(frames) <= MaxCmds
    /\ inbuf' = [inbuf EXCEPT ![c] = [frames |-> frames, partial |-> partial]]
    /\ UNCHANGED <<conn, shared, lock, bpopKey, hubSeq, poisoned, build, requirepass,
                   clock, wire, disk, tasks, sync, flushed>>

\* process_incoming's write of a response: feed when the read buffer holds
\* more, else send, which flushes everything fed before; the OK of a MULTI
\* is sent
FeedOrSend(c) ==
    flushed' = [flushed EXCEPT ![c] =
                   IF Len(out'[c]) > Len(out[c])
                        /\ (~ReadBufferLeft(inbuf'[c]) \/ pc'[c] = "multi")
                   THEN Len(out'[c]) ELSE @]

\* one round of process_incoming's loop on the next frame of the read buffer
PipeExecute(c) ==
    /\ pc[c] = "ready"
    /\ inbuf[c].frames # <<>>
    /\ ExecuteFrame(c, Head(inbuf[c].frames))
    /\ inbuf' = [inbuf EXCEPT ![c].frames = Tail(@)]
    /\ FeedOrSend(c)
    /\ UNCHANGED <<wire, disk, tasks, sync>>

\* the Block future resolves and its value is written
PipeWake(c) ==
    /\ WakeFrame(c)
    /\ UNCHANGED <<wire, disk, tasks, sync, inbuf>>
    /\ FeedOrSend(c)

\* the Block future times out and the nil array is written
PipeTimeout(c) ==
    /\ TimeoutFrame(c)
    /\ UNCHANGED <<wire, disk, tasks, sync, inbuf>>
    /\ FeedOrSend(c)

InitPipe == InitWith("release", FALSE)

NextPipe ==
    \/ \E c \in Conns, n \in 0..MaxPipe, partial \in BOOLEAN :
          \E frames \in [1..n -> PipeCmds] : PipeFill(c, frames, partial)
    \/ \E c \in Conns : PipeExecute(c)
    \/ \E c \in Conns : PipeWake(c)
    \/ \E c \in Conns : PipeTimeout(c)
    \/ BPopRecv
    \/ BPopIter

SpecPipe == InitPipe /\ [][NextPipe]_vars

\* the runtime runs every task that can run and timers fire; nothing is
\* assumed about what the clients send next
FairPipe ==
    /\ WF_vars(BPopRecv)
    /\ WF_vars(BPopIter)
    /\ \A c \in Conns :
          WF_vars(PipeExecute(c)) /\ WF_vars(PipeWake(c)) /\ WF_vars(PipeTimeout(c))
FairSpecPipe == SpecPipe /\ FairPipe

\* responses of connection c are held back in its write buffer
HeldBack(c) == flushed[c] < Len(out[c])

\* C33: a response that was written to the write buffer of a connection is
\* flushed to the socket: it is not held back forever
C33_ResponsesFlushed == \A c \in Conns : HeldBack(c) ~> ~HeldBack(c)

\* ------------------------------------------- waiters and later pop commands
\* the command that connection c executes in this step takes an element
\* from the list at key
TakesFrom(c, key) ==
    /\ nrecv'[c] = nrecv[c] + 1
    /\ LLen(store', key) < LLen(store, key)

\* a client is blocked on key with an open receiver
BlockedOn(key) == \E i \in 1..Len(bpopQ) : bpopQ[i].key = key /\ ~bpopQ[i].closed

\* C34: no pop command takes an element from a list that a blocked client
\* is waiting on: the element goes to the earliest waiter
C34_WaiterBeforeLaterPop ==
    [][\A c \in Conns : \A key \in Keys : TakesFrom(c, key) => ~BlockedOn(key)]_vars

\* ------------------------------------------------- staying authenticated
\* C35: with a password configured, a connection that is authenticated stays
\* authenticated for as long as it is open
C35_AuthMonotonic ==
    [][\A c \in Conns :
          (requirepass /\ authed[c] /\ pc'[c] # "closed") => authed'[c]]_vars

\* ------------------------------------------- elements of dropped waiters
\* the bpop task is in its loop and the first waiter on its key has a closed
\* receiver, while the list still has an element
DeadFirst ==
    /\ lock = TaskLock("bpop")
    /\ FirstWaiter(bpopQ, bpopKey) # 0
    /\ bpopQ[FirstWaiter(bpopQ, bpopKey)].closed
    /\ LLen(store, bpopKey) > 0

\* the same with a first waiter whose receiver is open
OpenFirst ==
    /\ lock = TaskLock("bpop")
    /\ FirstWaiter(bpopQ, bpopKey) # 0
    /\ ~bpopQ[FirstWaiter(bpopQ, bpopKey)].closed
    /\ LLen(store, bpopKey) > 0

\* C36: an iteration of the bpop task on a waiter whose receiver is closed
\* leaves every list as it was, removes that waiter and stays in the loop
\* with the locks held; an iteration on a waiter with an open receiver
\* serves it, and the loop ends only when no waiter on the key is left or
\* the list has no element
C36_DeadWaiterPushBack ==
    [][/\ (DeadFirst /\ BPopIter) =>
              /\ store' = store
              /\ bpopQ' = RemoveAt(bpopQ, FirstWaiter(bpopQ, bpopKey))
              /\ wait' = wait
              /\ lock' = lock /\ bpopKey' = bpopKey
       /\ (OpenFirst /\ BPopIter) =>
              /\ wait'[bpopQ[FirstWaiter(bpopQ, bpopKey)].conn].st = "ready"
              /\ lock' = lock /\ bpopKey' = bpopKey
       /\ (BPopIter /\ lock' = FreeLock) =>
              \/ FirstWaiter(bpopQ', bpopKey) = 0
              \/ LLen(store', bpopKey) = 0]_vars

\* the task is about to pop x from <<x, y>> for a waiter that timed out, and
\* a waiter with an open receiver is queued behind it on the same key
C36_Witness ==
    /\ DeadFirst
    /\ store[bpopKey].v = <<"x", "y">>
    /\ \E i \in 1..Len(bpopQ) :
          /\ i > FirstWaiter(bpopQ, bpopKey)
          /\ bpopQ[i].key = bpopKey /\ ~bpopQ[i].closed

\* ---------------------------------------------------- the snapshot trigger
\* the argument of the change_incr call execute_command makes for cmd on the
\* shared state S: 0 when it makes none
ChangeCount(cmd, S, bld) ==
    CASE cmd.op = "FLUSHDB" -> Size(S.store)
      [] cmd.op = "SET" -> 1
      [] cmd.op = "DEL" -> DelLoop(S.store, cmd.keys, 0).count
      [] cmd.op = "INCR" ->
            LET n == Incr(S.store, bld, cmd.key)
            IN  IF ~n.panic /\ n.ok THEN 1 ELSE 0
      [] cmd.op = "PUSH" ->
            IF Push(S.store, cmd.key, cmd.elems, cmd.dir).ok THEN 1 ELSE 0
      [] cmd.op = "POP" ->
            IF Pop(S.store, cmd.key, cmd.dir, cmd.count).some THEN 1 ELSE 0
      [] cmd.op = "BPOP" ->
            IF Pop(S.store, cmd.key, cmd.dir, 1).some THEN 1 ELSE 0
      [] cmd.op = "SADD" ->
            LET a == SAdd(S.store, cmd.key, cmd.members)
            IN  IF a.ok /\ a.num > 0 THEN 1 ELSE 0
      [] cmd.op = "SREM" ->
            LET a == SRem(S.store, cmd.key, cmd.members)
            IN  IF a.ok /\ a.num > 0 THEN 1 ELSE 0
      [] cmd.op \in {"ZADD", "GEOADD"} ->
            LET z == IF cmd.op = "ZADD" THEN ZAdd(S.store, cmd.key, cmd.members)
                     ELSE GeoAdd(S.store, cmd.key, cmd.members)
            IN  IF ~z.panic /\ z.err = "" /\ z.num > 0 THEN 1 ELSE 0
      [] cmd.op = "ZREM" ->
            LET z == ZRem(S.store, cmd.key, cmd.members)
            IN  IF z.err = "" /\ z.num > 0 THEN 1 ELSE 0
      [] cmd.op = "XADD" ->
            LET x == XAdd(S.store, bld, cmd.key, cmd.id)
            IN  IF ~x.panic /\ x.ok THEN 1 ELSE 0
      [] OTHER -> 0

\* one round of process_incoming's loop, with the calls of change_incr that
\* execute_command makes
CountedExecute(c, cmd) ==
    /\ CanRead(c)
    /\ ExecuteFrame(c, cmd)
    /\ changes + ChangeCount(cmd, Shared, build) <= MaxChanges
    /\ changes' = changes + ChangeCount(cmd, Shared, build)
    /\ UNCHANGED <<wire, disk, sync, pipe, shutdown, task, lastSave, finalSaves>>

\* persist_task: `interval.tick() => {}`
PersistWake ==
    /\ task["persist"] = "loop"
    /\ ~shutdown
    /\ task' = [task EXCEPT !["persist"] = "tick"]
    /\ UNCHANGED <<conn, shared, lock, bpopKey, hubSeq, poisoned, build, requirepass,
                   clock, wire, disk, sync, pipe, shutdown, changes, lastSave, finalSaves>>

\* Instant::now().duration_since(last_save).as_secs()
SinceLastSave == clock - lastSave

\* persist_task after a tick: reset the counter and last_save and go on to
\* save, or `continue`
PersistCheck ==
    /\ task["persist"] = "tick"
    /\ IF changes >= PersistChanges /\ SinceLastSave > PersistSecs
       THEN /\ changes' = 0
            /\ lastSave' = clock
            /\ task' = [task EXCEPT !["persist"] = "saving"]
       ELSE /\ task' = [task EXCEPT !["persist"] = "loop"]
            /\ UNCHANGED <<changes, lastSave>>
    /\ UNCHANGED <<conn, shared, lock, bpopKey, hubSeq, poisoned, build, requirepass,
                   clock, wire, disk, sync, pipe, shutdown, finalSaves>>

PersistCmds ==
    {PushCmd("K", <<"x">>, "Right"), BPopCmd("K", "Left", 0), PopCmd("K", "Left", 1),
     ZAddCmd("J", <<<<1, "bar">>>>), ZAddCmd("J", <<<<2, "bar">>>>),
     SAddCmd("J", <<"a">>), DelCmd(<<"J">>), FlushDb}

InitPersist == InitWith("release", FALSE)

NextPersist ==
    \/ \E c \in Conns, cmd \in PersistCmds : CountedExecute(c, cmd)
    \/ \E c \in Conns : ConnWake(c)
    \/ BPopRecv
    \/ BPopIter
    \/ Tick
    \/ PersistWake
    \/ PersistCheck
    \/ PersistSave

SpecPersist == InitPersist /\ [][NextPersist]_vars

\* C37: after a tick the snapshot task goes on to save exactly when the
\* counter is at least min_changes and the time since the last save is at
\* least interval_secs; it then has reset the counter to 0 and the last-save
\* time to now, and when it does not save it changes neither
C37_SaveWhenDue ==
    [][(task["persist"] = "tick" /\ task'["persist"] # "tick") =>
          /\ task'["persist"] = "saving" <=>
                (changes >= PersistChanges /\ SinceLastSave >= PersistSecs)
          /\ task'["persist"] = "saving" => (changes' = 0 /\ lastSave' = clock)
          /\ task'["persist"] # "saving" =>
                (changes' = changes /\ lastSave' = lastSave)]_vars

\* C38: a step of a command or of a background task that changes the data
\* of the store increments the change counter
C38_ChangesCounted == [][store' # store => changes' > changes]_vars

\* C39: a save of the snapshot task that fails leaves the file as it was and
\* the storage lock usable, and the task goes back to its loop
C39_FailedSaveHarmless ==
    [][(PersistSave /\ ~poisoned /\ Dump(store, CurrentKeys(store)).st # "ok") =>
          /\ file' = file
          /\ ~poisoned'
          /\ task'["persist"] = "loop"]_vars

\* ------------------------------------------ keys with an expiry in seconds
\* the largest value of the modelled u32 (scaled down) and the largest
\* seconds value in a file
U32Max == 2999
MaxSecs == 3
MillisPerSec == 1000

RdbU32(n) == [k |-> "u32", v |-> n]

\* a u32 multiplication: [panic, v]; an overflow panics in a debug build and
\* wraps in a release build
MulU32(a, b, bld) ==
    IF a * b <= U32Max THEN [panic |-> FALSE, v |-> a * b]
    ELSE IF bld = "debug" THEN [panic |-> TRUE, v |-> 0]
    ELSE [panic |-> FALSE, v |-> (a * b) % (U32Max + 1)]

\* read_key_value at token pos: [st, key, value, next]
ReadKeyValue(toks, pos) ==
    IF IsFlag(toks[pos], "00")
    THEN [st |-> "ok", key |-> toks[pos + 1].v, value |-> <<toks[pos + 2].v>>,
          next |-> pos + 3]
    ELSE [st |-> "panic", key |-> "", value |-> <<>>, next |-> pos]

\* next_key at token pos: [st, key, value, expires_at, next]; st is "none" at
\* the end of the database
NextKey(toks, pos, bld) ==
    LET Entry(kv, expires) ==
            [st |-> kv.st, key |-> kv.key, value |-> kv.value, expires_at |-> expires,
             next |-> kv.next]
    IN  IF IsFlag(toks[pos], "FE") \/ IsFlag(toks[pos], "FF")
        THEN Entry([st |-> "none", key |-> "", value |-> <<>>, next |-> pos], NoExpiry)
        ELSE IF IsFlag(toks[pos], "FC")
        THEN Entry(ReadKeyValue(toks, pos + 2), toks[pos + 1].v)
        ELSE IF IsFlag(toks[pos], "FD")
        THEN LET expires == MulU32(toks[pos + 1].v, MillisPerSec, bld)
             IN  IF expires.panic
                 THEN Entry([st |-> "panic", key |-> "", value |-> <<>>, next |-> pos],
                            NoExpiry)
                 ELSE Entry(ReadKeyValue(toks, pos + 2), expires.v)
        ELSE Entry(ReadKeyValue(toks, pos), NoExpiry)

\* the `while let` over next_key: [st, keys]
RECURSIVE ReadKeys(_, _, _)
ReadKeys(toks, pos, bld) ==
    LET e == NextKey(toks, pos, bld)
    IN  IF e.st = "none" THEN [st |-> "ok", keys |-> <<>>]
        ELSE IF e.st = "panic" THEN [st |-> "panic", keys |-> <<>>]
        ELSE LET rest == ReadKeys(toks, e.next, bld)
             IN  [st |-> rest.st,
                  keys |-> <<[key |-> e.key, type |-> "00", value |-> e.value,
                              expires_at |-> e.expires_at]>> \o rest.keys]

\* a file written by another server: the key K with the value v and an
\* expiry of secs seconds of Unix time
SecsFile(secs) ==
    WriteHeader \o <<RdbFlag("FE")>> \o WriteSize(0)
        \o <<RdbFlag("FB")>> \o WriteSize(1) \o WriteSize(1)
        \o <<RdbFlag("FD"), RdbU32(secs), RdbFlag("00")>>
        \o WriteString("K") \o WriteString("v")
        \o <<RdbFlag("FF"), RdbU64(0)>>

\* the seconds value of the file's 0xFD entry
SecsOf(toks) == toks[(CHOOSE i \in 1..Len(toks) : IsFlag(toks[i], "FD")) + 1].v

\* start_server on the file: the keys are parsed and loaded; a panic of the
\* load ends the process
StartOnFile ==
    /\ boots = 0
    /\ boots' = 1
    /\ LET r == ReadKeys(file, FirstKey(file), build)
       IN  IF r.st = "panic"
           THEN /\ store' = store
                /\ pc' = [c \in Conns |-> "closed"]
                /\ task' = [name \in TaskNames |-> "done"]
           ELSE /\ store' = LoadKeys([k \in Keys |-> NoValue], r.keys)
                /\ pc' = pc
                /\ task' = task
    /\ lastSave' = clock
    /\ UNCHANGED <<alive, authed, nrecv, cur, wait, out, nops, txq, execRes, sid,
                   bpopQ, bpopChan, xreadQ, xreadChan, clients, subRx, hubChan,
                   lock, bpopKey, hubSeq, poisoned, build, requirepass, clock,
                   wire, file, snapshot, sync, pipe, shutdown, changes, finalSaves>>

SecsCmds == {Get("K"), TtlCmd("K"), Set("J", "w")}

InitSecs ==
    \E bld \in Builds, secs \in 0..MaxSecs :
        /\ InitServer(bld, FALSE, [k \in Keys |-> NoValue])
        /\ NoWire
        /\ file = SecsFile(secs)
        /\ snapshot = [k \in Keys |-> NoValue]
        /\ boots = 0
        /\ NoTasks /\ NoSync /\ NoPipe

NextSecs ==
    \/ Tick
    \/ StartOnFile
    \/ \E c \in Conns, cmd \in SecsCmds : boots = 1 /\ ConnExecute(c, cmd)

SpecSecs == InitSecs /\ [][NextSecs]_vars

\* C40: the server that starts on a file whose key K has the 0xFD expiry s
\* loads K with the deadline s * 1000 ms of Unix time, for every s: K is
\* there with the time that remains, or is left out when the deadline has
\* passed
C40_SecondsExpiry ==
    [][boots' # boots =>
          LET deadline == SecsOf(file) * MillisPerSec
          IN  /\ \A c \in Conns : pc'[c] # "closed"
              /\ IF UnixTimeMillis > deadline
                 THEN store'["K"].t = "none"
                 ELSE /\ store'["K"].t = "string"
                      /\ store'["K"].v = <<"v">>
                      /\ store'["K"].ttl = deadline - UnixTimeMillis]_vars

====
